---------------------------- MODULE Spec2Model ----------------------------
(***************************************************************************)
(* Model of ufrutov/telegram-q-bot: the webhook dispatcher                 *)
(* (src/api/webhook.js), the answer cache it shares between invocations,   *)
(* and the text pipeline of the question loaders                           *)
(* (src/lib/QuestionLoader.js, src/lib/QuestionLoader/BaseQuestionLoader.js,*)
(* src/unnamed/part_003).                                                  *)
(*                                                                         *)
(* A text is a sequence of one-character strings.  Letters of the          *)
(* Cyrillic texts and emoji of the source are written as ASCII letters:    *)
(* none of them is a reserved character of MarkdownV2, a colon, a bracket  *)
(* or a backslash, so no operation of the model tells them apart.          *)
(***************************************************************************)
EXTENDS Integers, Sequences, FiniteSets, TLC

VARIABLES
    rev,        \* the deployed revision of api/webhook.js: 1 (earlier), 2 (later)
    faulty,     \* whether calls of the channel and of the store may fail in transit
    now,        \* the clock Date.now() reads
    cache,      \* the key-value store: key -> stored payload
    buttons,    \* the reveal buttons the chats show
    inflight,   \* the webhook invocations suspended at an await
    started,    \* the number of invocations started so far
    ev,         \* what the invocation that finished last did
    reveals,    \* history: the answers sent, each with its writer, press and button
    consumed,   \* history: keys whose entry a press has consumed since its last write
    expired,    \* history: keys whose entry has outlived its time-to-live since its last write
    text,       \* escape run: the input text handed to escapeMarkdownV2
    escaped,    \* escape run: the text returned (NoText before the call)
    epc,        \* escape run: "input" before the call, "done" or "done_plain" after
    load,       \* load run: one call of loadQuestion of an adapter
    call        \* function run: one call of a function of the loaders

(***************************************************************************)
(* Bounds                                                                  *)
(***************************************************************************)
\* Greatest number of pieces an input text of the escape run is made of.
MaxPieces == 5
\* Greatest number of webhook invocations of one behaviour.
MaxInv == 3
\* Greatest number of webhook invocations of one behaviour with a faulty transport.
MaxFaultyInv == 2
\* Greatest value of the clock.
MaxTime == 1
\* Greatest number of pieces an input fragment of cleanContent is made of.
MaxFragPieces == 3
\* Greatest number of sections of a page of the HTML source.
MaxSections == 3
\* The number of values the model tells apart in [0, 1): Math.random()
\* returns a multiple of 1 / RandomDenominator.
RandomDenominator == 1048576

(***************************************************************************)
(* Texts                                                                   *)
(***************************************************************************)
NoText == <<"<none>">>

RECURSIVE Concat(_)
\* Array.prototype.join("") of a sequence of texts.
Concat(parts) ==
    IF parts = <<>> THEN <<>> ELSE Head(parts) \o Concat(Tail(parts))

\* Whether text `sub` occurs in text `t` at position p.
OccursAt(t, sub, p) ==
    /\ p >= 1
    /\ p + Len(sub) - 1 <= Len(t)
    /\ SubSeq(t, p, p + Len(sub) - 1) = sub

\* String.prototype.includes.
Includes(t, sub) == \E p \in 1..(Len(t) + 1) : OccursAt(t, sub, p)

\* The least position >= from that holds character c, or 0.
IndexFrom(t, c, from) ==
    LET hits == {p \in from..Len(t) : t[p] = c}
    IN  IF hits = {} THEN 0 ELSE CHOOSE p \in hits : \A q \in hits : p <= q


(***************************************************************************)
(* escapeMarkdownV2                                                        *)
(***************************************************************************)
\* The characters escapeMarkdownV2 escapes ('*' is not among them); "BQ"
\* stands for the backquote.
specialChars ==
    << "_", "[", "]", "(", ")", "~", "BQ", ">", "#", "+", "-", "=", "|",
       "{", "}", ".", "!" >>

\* The set of the characters of a sequence.
Range(s) == {s[i] : i \in 1..Len(s)}

\* linkRegex /\[([^\]]+)\]\(([^)]+)\)/ tried at position s: the position of
\* the match's last character, or 0 when there is no match at s.  The label
\* runs to the first "]" and the url to the first ")", each at least one
\* character long.
LinkEndAt(t, s) ==
    IF s < 1 \/ s > Len(t) \/ t[s] # "["
    THEN 0
    ELSE LET j == IndexFrom(t, "]", s + 1)
         IN  IF j < s + 2 \/ j + 1 > Len(t) \/ t[j + 1] # "("
             THEN 0
             ELSE LET k == IndexFrom(t, ")", j + 2)
                  IN  IF k < j + 3 THEN 0 ELSE k

RECURSIVE LinkMatches(_, _)
\* The matches of the global linkRegex in t from position `from` on, left to
\* right and not overlapping, each as <<first, last>>.
LinkMatches(t, from) ==
    LET starts == {s \in from..Len(t) : LinkEndAt(t, s) # 0}
    IN  IF starts = {}
        THEN <<>>
        ELSE LET s == CHOOSE x \in starts : \A y \in starts : x <= y
             IN  <<<<s, LinkEndAt(t, s)>>>> \o LinkMatches(t, LinkEndAt(t, s) + 1)

RECURSIVE DigitsOf(_)
\* The decimal digits of a natural number, as a text.
DigitsOf(n) ==
    LET d == <<"0", "1", "2", "3", "4", "5", "6", "7", "8", "9">>
    IN  IF n < 10 THEN <<d[n + 1]>> ELSE DigitsOf(n \div 10) \o <<d[(n % 10) + 1]>>

\* The placeholder \u0000MDLINK${idx}\u0000; "NUL" stands for U+0000.
Placeholder(idx) ==
    <<"NUL", "M", "D", "L", "I", "N", "K">> \o DigitsOf(idx) \o <<"NUL">>

RECURSIVE ReplaceLinks(_, _, _, _)
\* text.replace(linkRegex, ...): the text from `from` on with the idx-th and
\* later matches replaced by their placeholders.
ReplaceLinks(t, from, matches, idx) ==
    IF matches = <<>>
    THEN SubSeq(t, from, Len(t))
    ELSE LET m == Head(matches)
         IN  SubSeq(t, from, m[1] - 1) \o Placeholder(idx)
                 \o ReplaceLinks(t, m[2] + 1, Tail(matches), idx + 1)

RECURSIVE EscapeChar(_, _)
\* replaced.split(char).join("\\" + char)
EscapeChar(t, c) ==
    IF t = <<>> THEN <<>>
    ELSE (IF Head(t) = c THEN <<"\\", c>> ELSE <<Head(t)>>) \o EscapeChar(Tail(t), c)

RECURSIVE EscapeAll(_, _)
\* The loop over the special characters, in their order.
EscapeAll(t, chars) ==
    IF chars = <<>> THEN t ELSE EscapeAll(EscapeChar(t, Head(chars)), Tail(chars))

IsDigit(c) == c \in {"0", "1", "2", "3", "4", "5", "6", "7", "8", "9"}

RECURSIVE NumberOf(_)
\* Number(n) of a text of digits.
NumberOf(ds) ==
    LET v == CHOOSE n \in 0..9 : DigitsOf(n) = <<ds[Len(ds)]>>
    IN  IF Len(ds) = 1 THEN v ELSE 10 * NumberOf(SubSeq(ds, 1, Len(ds) - 1)) + v

\* /\u0000MDLINK(\d+)\u0000/ tried at position s: the position of the closing
\* NUL, or 0.
PlaceholderEndAt(t, s) ==
    IF ~OccursAt(t, <<"NUL", "M", "D", "L", "I", "N", "K">>, s)
    THEN 0
    ELSE LET nondigit == {p \in (s + 7)..Len(t) : ~IsDigit(t[p])}
         IN  IF nondigit = {}
             THEN 0
             ELSE LET e == CHOOSE p \in nondigit : \A q \in nondigit : p <= q
                  IN  IF e > s + 7 /\ t[e] = "NUL" THEN e ELSE 0

RECURSIVE RestoreLinks(_, _, _)
\* replaced.replace(/\u0000MDLINK(\d+)\u0000/g, (_, n) => placeholders[Number(n)]):
\* an index with no placeholder yields the text "undefined".
RestoreLinks(t, from, placeholders) ==
    LET starts == {s \in from..Len(t) : PlaceholderEndAt(t, s) # 0}
    IN  IF starts = {}
        THEN SubSeq(t, from, Len(t))
        ELSE LET s == CHOOSE x \in starts : \A y \in starts : x <= y
                 e == PlaceholderEndAt(t, s)
                 n == NumberOf(SubSeq(t, s + 7, e - 1))
                 by == IF n + 1 <= Len(placeholders)
                       THEN placeholders[n + 1]
                       ELSE <<"u", "n", "d", "e", "f", "i", "n", "e", "d">>
             IN  SubSeq(t, from, s - 1) \o by \o RestoreLinks(t, e + 1, placeholders)

\* BaseQuestionLoader.escapeMarkdownV2, the link-preserving revision.
escapeMarkdownV2(t) ==
    IF t = <<>> THEN t
    ELSE LET matches == LinkMatches(t, 1)
             placeholders == [i \in 1..Len(matches) |->
                                 SubSeq(t, matches[i][1], matches[i][2])]
             replaced == ReplaceLinks(t, 1, matches, 0)
         IN  RestoreLinks(EscapeAll(replaced, specialChars), 1, placeholders)

\* BaseQuestionLoader.escapeMarkdownV2, the revision without link protection.
escapeMarkdownV2Plain(t) ==
    IF t = <<>> THEN t ELSE EscapeAll(t, specialChars)

(***************************************************************************)
(* formatForTelegram                                                       *)
(***************************************************************************)
\* The value of rec.f, for a field the record may lack (then `dflt`).
Field(rec, f, dflt) == IF f \in DOMAIN rec THEN rec[f] ELSE dflt

\* JavaScript truthiness of a text field: absent, null and "" are falsy.
\* A null field is held as the empty text.
Truthy(rec, f) == f \in DOMAIN rec /\ rec[f] # <<>>

IsSpace(c) == c \in {" ", "\n", "\t", "\r"}

RECURSIVE TrimStart(_)
TrimStart(t) ==
    IF t # <<>> /\ IsSpace(Head(t)) THEN TrimStart(Tail(t)) ELSE t

RECURSIVE TrimEnd(_)
TrimEnd(t) ==
    IF t # <<>> /\ IsSpace(t[Len(t)]) THEN TrimEnd(SubSeq(t, 1, Len(t) - 1)) ELSE t

\* String.prototype.trim.
Trim(t) == TrimEnd(TrimStart(t))

RECURSIVE Join(_, _)
\* Array.prototype.join(sep).
Join(parts, sep) ==
    IF parts = <<>> THEN <<>>
    ELSE IF Len(parts) = 1 THEN parts[1]
    ELSE parts[1] \o sep \o Join(Tail(parts), sep)

\* The headings of the three sections; "?", "v" and "c" stand for the
\* emoji, "Q", "A" and "K" for the Cyrillic words.
QuestionHeading == <<"?", " ", "*", "Q", ":", "*", "\n">>
AnswerHeading == <<"v", " ", "*", "A", ":", "*", "\n">>
CommentHeading == <<"c", " ", "*", "K", ":", "*", "\n">>

\* An end of formatForTelegram that joins the two texts into one message
\* whatever split says.
FormatResult_joined(questionText, answerText, split) ==
    [question |->
         Trim(IF questionText # <<>> /\ answerText # <<>>
              THEN questionText \o <<"\n", "\n">> \o answerText
              ELSE IF answerText # <<>> THEN answerText ELSE questionText),
     answer |-> <<>>]

\* The end of formatForTelegram: the two texts are returned apart (split)
\* or joined into one message.
FormatResult(questionText, answerText, split) ==
    IF split
    THEN [question |-> Trim(questionText), answer |-> Trim(answerText)]
    ELSE [question |->
              Trim(IF questionText # <<>> /\ answerText # <<>>
                   THEN questionText \o <<"\n", "\n">> \o answerText
                   ELSE IF answerText # <<>> THEN answerText ELSE questionText),
          answer |-> <<>>]

\* BaseQuestionLoader.formatForTelegram(questionData, split, spoiler):
\* the record {question, answer} of formatted texts.
formatForTelegram(questionData, split, spoiler) ==
    LET sp == IF spoiler THEN <<"|", "|">> ELSE <<>>
    IN  FormatResult(
            IF Truthy(questionData, "question")
            THEN QuestionHeading \o escapeMarkdownV2(questionData.question)
            ELSE <<>>,
            Join((IF Truthy(questionData, "answer")
                  THEN <<AnswerHeading \o sp
                            \o escapeMarkdownV2(questionData.answer) \o sp>>
                  ELSE <<>>)
                 \o (IF Truthy(questionData, "description")
                     THEN <<CommentHeading \o sp
                               \o escapeMarkdownV2(questionData.description) \o sp>>
                     ELSE <<>>),
                 <<"\n", "\n">>),
            split)

(***************************************************************************)
(* GotQuestionsOnlineLoader                                                *)
(***************************************************************************)
\* COMPLEXITY_RANGES: the page ceiling of each tier (the bands are given in
\* tenths: 0.1 is 1, 10 is 100).
COMPLEXITY_RANGES ==
    [random |-> [min |-> 1, max |-> 45, pages |-> 500],
     easy |-> [min |-> 1, max |-> 35, pages |-> 500],
     medium |-> [min |-> 35, max |-> 65, pages |-> 500],
     hard |-> [min |-> 65, max |-> 100, pages |-> 200]]

\* Names every object literal answers through Object.prototype: a lookup
\* obj[name] finds the inherited property, a truthy value, and not undefined.
ObjectPrototypeNames ==
    {"constructor", "toString", "valueOf", "hasOwnProperty", "__proto__"}

\* A default parameter: an argument left out or undefined takes the default.
DefaultArg(v, dflt) == IF v = "undefined" THEN dflt ELSE v

\* An error object: its name (class) and its message, a sequence of pieces.
ErrorOf(name, message) == [name |-> name, message |-> message]

\* COMPLEXITY_RANGES[complexity] || COMPLEXITY_RANGES.medium.  An inherited
\* name finds a truthy value that has none of min, max and pages.
RangeOf(complexity) ==
    IF complexity \in DOMAIN COMPLEXITY_RANGES
    THEN COMPLEXITY_RANGES[complexity]
    ELSE IF complexity \in ObjectPrototypeNames
    THEN [inherited |-> TRUE]
    ELSE COMPLEXITY_RANGES.medium

\* Number.prototype.toString of a band limit held in tenths: 35 is "3.5",
\* 100 is "10".
TenthsText(n) ==
    IF n % 10 = 0 THEN DigitsOf(n \div 10)
    ELSE DigitsOf(n \div 10) \o <<".">> \o DigitsOf(n % 10)

\* The constructor of GotQuestionsOnlineLoader: the loader with its query
\* parameters and page ceiling, or the TypeError of range.min.toString() on
\* a range without min.
GotConstructor(complexity0) ==
    LET complexity == DefaultArg(complexity0, "random")
        range == RangeOf(complexity)
    IN  IF "min" \notin DOMAIN range
        THEN [ok |-> FALSE,
              error |-> ErrorOf("TypeError",
                           <<"Cannot read properties of undefined (reading 'toString')">>)]
        ELSE [ok |-> TRUE, adapter |-> "gotq", complexity |-> complexity,
              params |-> [type |-> <<"q", "u", "e", "s", "t", "i", "o", "n", "s">>,
                          limit |-> <<"1">>,
                          fromD |-> <<"5", "0">>,
                          toD |-> <<"1", "0", "0">>,
                          fromTrueDL |-> TenthsText(range.min),
                          toTrueDL |-> TenthsText(range.max)],
              pages |-> range.pages]

\* The tier names as texts.
TierText ==
    [random |-> <<"r", "a", "n", "d", "o", "m">>,
     easy |-> <<"e", "a", "s", "y">>,
     medium |-> <<"m", "e", "d", "i", "u", "m">>,
     hard |-> <<"h", "a", "r", "d">>]

\* this.baseUrl of the JSON-API adapter, "https://gotquestions.online",
\* shortened to its scheme and a two-label host.
GotBaseUrl == <<"h", ":", "/", "/", "g", ".", "o">>

\* A decimal integer as a text, as template literals print it.
IntText(n) == IF n < 0 THEN <<"-">> \o DigitsOf(0 - n) ELSE DigitsOf(n)

\* The text "undefined" a template literal prints for a missing property.
UndefinedText == <<"u", "n", "d", "e", "f", "i", "n", "e", "d">>

\* `${obj.f}` for a numeric property the object may lack.
NumFieldText(rec, f) == IF f \in DOMAIN rec THEN IntText(rec[f]) ELSE UndefinedText

\* GotQuestionsOnlineLoader.extractImages(pic): the one-element list of the
\* absolute URL, or the empty list.
GotExtractImages(pic) ==
    IF pic = <<>> THEN <<>>
    ELSE IF Head(pic) = "/" THEN <<GotBaseUrl \o pic>> ELSE <<pic>>

RECURSIVE SumSeq(_)
SumSeq(xs) == IF xs = <<>> THEN 0 ELSE Head(xs) + SumSeq(Tail(xs))

\* String(sum / n) for a mean that is a whole number: no decimal place.
MeanFixed1_whole(xs) == DigitsOf(SumSeq(xs) \div Len(xs))

\* (sum / n).toFixed(1): the integer part, a point and one decimal, the
\* mean rounded to the nearest tenth (the arrays of the model have no mean
\* that lies halfway between two tenths).
MeanFixed1(xs) ==
    LET tenths == (20 * SumSeq(xs) + Len(xs)) \div (2 * Len(xs))
    IN  DigitsOf(tenths \div 10) \o <<".">> \o DigitsOf(tenths % 10)

\* A function with field f removed.
Without(rec, f) == [x \in DOMAIN rec \ {f} |-> rec[x]]

\* A razdatkaText that is put behind the prefix whatever the question holds.
WithRazdatka_alwaysPrefix(question, razdatkaText) ==
    LET rz == Trim(razdatkaText)
    IN  IF razdatkaText # <<>> /\ rz # <<>>
        THEN question \o <<"\n", "\n", "@", " ">> \o rz
        ELSE question

\* "Add razdatka text if present" of parseQuestionData: result.question
\* after the block, from result.question before it ("@" stands for the
\* paper-clip glyph of the prefix).
WithRazdatka(question, razdatkaText) ==
    LET rz == Trim(razdatkaText)
    IN  IF razdatkaText # <<>> /\ rz # <<>>
        THEN IF question # <<>>
             THEN question \o <<"\n", "\n", "@", " ">> \o rz
             ELSE rz
        ELSE question

\* GotQuestionsOnlineLoader.parseQuestionData(questionData), for the adapter
\* constructed with tier `complexity`.  The raw item holds every property;
\* an absent text or picture is the empty text, an absent array the empty
\* sequence.  The record returned has no id and no link property.
parseQuestionData(raw, complexity) ==
    LET text0 == IF raw.text # <<>> THEN Trim(raw.text) ELSE <<>>
        question == WithRazdatka(text0, raw.razdatkaText)
        questionPreview == IF raw.razdatkaPic # <<>>
                           THEN GotExtractImages(raw.razdatkaPic) ELSE <<>>
        answer == IF raw.answer # <<>> THEN Trim(raw.answer) ELSE <<>>
        zachet == Trim(raw.zachet)
        comment == Trim(raw.comment)
        d1 == IF raw.zachet # <<>> /\ zachet # <<>>
              THEN <<<<"Z", ":", " ">> \o zachet>> ELSE <<>>
        d2 == IF raw.comment # <<>> /\ comment # <<>> THEN <<comment>> ELSE <<>>
        d3 == IF Len(raw.complexity) > 0
              THEN << <<"[", "^", "]", "(">> \o GotBaseUrl
                         \o <<"/", "q", "/">> \o IntText(raw.id)
                         \o <<")", " ", "*">> \o MeanFixed1(raw.complexity)
                         \o <<"%", "*", " ", "o", "k", ",", " ", "t", ":", " ", "*">>
                         \o (IF complexity \in DOMAIN TierText
                             THEN TierText[complexity] ELSE <<"x">>)
                         \o <<"*">> >>
              ELSE <<>>
        descriptionParts == d1 \o d2 \o d3
        answerPreview ==
            (IF raw.answerPic # <<>> THEN GotExtractImages(raw.answerPic) ELSE <<>>)
            \o (IF raw.commentPic # <<>> THEN GotExtractImages(raw.commentPic) ELSE <<>>)
        full == [question |-> question,
                 answer |-> answer,
                 description |-> Join(descriptionParts, <<"\n", "\n">>),
                 questionPreview |-> questionPreview,
                 answerPreview |-> answerPreview]
        r1 == IF questionPreview = <<>> THEN Without(full, "questionPreview") ELSE full
        r2 == IF answerPreview = <<>> THEN Without(r1, "answerPreview") ELSE r1
    IN  IF descriptionParts = <<>> THEN Without(r2, "description") ELSE r2

\* The catch of loadQuestion: whatever was thrown in the try leaves as
\* new Error(`Failed to load question: ${error.message}`).
LoadError(message) ==
    [ok |-> FALSE, error |-> ErrorOf("Error", <<"Failed to load question: ">> \o message)]

\* GotQuestionsOnlineLoader.loadQuestion once the fetch has answered:
\* `resp` is the response ([throws, ok, questions]) and `idx` the index
\* Math.floor(Math.random() * data.questions.length) picks.  Every failure
\* leaves through the catch, which wraps its message.  `item` (history) is
\* the source identifier of the item selected; it is no part of `data`.
GotLoadResult(complexity, resp, idx) ==
    IF resp.throws
    THEN LoadError(resp.thrown)
    ELSE IF ~resp.ok
    THEN LoadError(<<"HTTP error! status: ">> \o IntText(resp.status))
    ELSE IF Len(resp.questions) = 0
    THEN LoadError(<<"No questions found in response">>)
    ELSE [ok |-> TRUE, data |-> parseQuestionData(resp.questions[idx + 1], complexity),
          item |-> resp.questions[idx + 1].id]

(***************************************************************************)
(* ChgkInfoQuestionLoader                                                  *)
(***************************************************************************)
\* String.prototype.indexOf(sub, from - 1): the least position >= from at
\* which sub occurs, or 0.
IndexOfFrom(t, sub, from) ==
    LET hits == {p \in from..(Len(t) - Len(sub) + 1) : OccursAt(t, sub, p)}
    IN  IF hits = {} THEN 0 ELSE CHOOSE p \in hits : \A q \in hits : p <= q

RECURSIVE ReplaceAllText(_, _, _)
\* text.replace(/sub/g, by) for a literal sub.
ReplaceAllText(t, sub, by) ==
    LET p == IndexOfFrom(t, sub, 1)
    IN  IF p = 0 THEN t
        ELSE SubSeq(t, 1, p - 1) \o by
                 \o ReplaceAllText(SubSeq(t, p + Len(sub), Len(t)), sub, by)

\* The least element of a non-empty set of positions.
Least(S) == CHOOSE p \in S : \A q \in S : p <= q

StrongOpen == <<"<", "s", "t", "r", "o", "n", "g", ">">>
StrongClose == <<"<", "/", "s", "t", "r", "o", "n", "g", ">">>

\* The labels of the three sections: "Q 1:" stands for the Cyrillic
\* "question 1:", "A:" for "answer:", "K:" for "comments:".
QuestionLabel == <<"Q", " ", "1", ":">>
AnswerLabel == <<"A", ":">>
CommentLabel == <<"K", ":">>

\* /<strong>([\s\S]*?)<\/strong>/ tried at position s: the position of the
\* match's last character, or 0.
StrongEndAt(html, s) ==
    IF ~OccursAt(html, StrongOpen, s) THEN 0
    ELSE LET e == IndexOfFrom(html, StrongClose, s + Len(StrongOpen))
         IN  IF e = 0 THEN 0 ELSE e + Len(StrongClose) - 1

RECURSIVE StrongMatches(_, _)
\* [...html.matchAll(strongRegex)] from position `from` on: each match with
\* its index, the position of its last character and its captured text.
StrongMatches(html, from) ==
    LET starts == {s \in from..Len(html) : StrongEndAt(html, s) # 0}
    IN  IF starts = {} THEN <<>>
        ELSE <<[index |-> Least(starts),
                last |-> StrongEndAt(html, Least(starts)),
                text |-> SubSeq(html, Least(starts) + Len(StrongOpen),
                                StrongEndAt(html, Least(starts)) - Len(StrongClose))]>>
             \o StrongMatches(html, StrongEndAt(html, Least(starts)) + 1)

ImgOpen == <<"<", "p", ">", "<", "i", "m", "g", " ", "s", "r", "c", "=", "\"">>
ImgClose == <<"\"", ">">>
ChgkHost == <<"h", ":", "/", "/", "c", ".", "i">>

\* /<p><img src="(.*?)">/ tried at position s: the position of the match's
\* last character, or 0.  The dot matches no line terminator.
ImgEndAt(content, s) ==
    IF ~OccursAt(content, ImgOpen, s) THEN 0
    ELSE LET e == IndexOfFrom(content, ImgClose, s + Len(ImgOpen))
         IN  IF e = 0 THEN 0
             ELSE IF \E p \in (s + Len(ImgOpen))..(e - 1) : content[p] \in {"\n", "\r"}
             THEN 0
             ELSE e + 1

\* An extractImages that runs the pattern once: the source of the first
\* image only.
ChgkExtractImages_first(content, from) ==
    LET starts == {s \in from..Len(content) : ImgEndAt(content, s) # 0}
    IN  IF starts = {} THEN <<>>
        ELSE LET src == SubSeq(content, Least(starts) + Len(ImgOpen),
                               ImgEndAt(content, Least(starts)) - 2)
             IN  <<IF src # <<>> /\ Head(src) = "/" THEN ChgkHost \o src ELSE src>>

RECURSIVE ChgkExtractImages(_, _)
\* ChgkInfoQuestionLoader.extractImages(content), from position `from` on:
\* the sources of the images, a source that starts with "/" made absolute
\* ("h://c.i" stands for http://questions.chgk.info).
ChgkExtractImages(content, from) ==
    LET starts == {s \in from..Len(content) : ImgEndAt(content, s) # 0}
    IN  IF starts = {} THEN <<>>
        ELSE LET src == SubSeq(content, Least(starts) + Len(ImgOpen),
                               ImgEndAt(content, Least(starts)) - 2)
             IN  <<IF src # <<>> /\ Head(src) = "/" THEN ChgkHost \o src ELSE src>>
                     \o ChgkExtractImages(content, ImgEndAt(content, Least(starts)) + 1)

\* /<p><img[^>]*><\/p>/ tried at position s: the last position, or 0.
ImgParaEndAt(t, s) ==
    IF ~OccursAt(t, <<"<", "p", ">", "<", "i", "m", "g">>, s) THEN 0
    ELSE LET g == IndexFrom(t, ">", s + 7)
         IN  IF g # 0 /\ OccursAt(t, <<"<", "/", "p", ">">>, g + 1) THEN g + 4 ELSE 0

\* /<p\s*\/?>/ tried at position s: the last position, or 0.
ParaEndAt(t, s) ==
    IF ~OccursAt(t, <<"<", "p">>, s) THEN 0
    ELSE LET rest == {p \in (s + 2)..Len(t) : ~IsSpace(t[p])}
         IN  IF rest = {} THEN 0
             ELSE IF t[Least(rest)] = ">" THEN Least(rest)
             ELSE IF t[Least(rest)] = "/" /\ Least(rest) < Len(t)
                       /\ t[Least(rest) + 1] = ">"
             THEN Least(rest) + 1
             ELSE 0

\* /<[^>]*>/ tried at position s: the last position, or 0.
TagEndAt(t, s) ==
    IF s > Len(t) \/ t[s] # "<" THEN 0 ELSE IndexFrom(t, ">", s + 1)

RECURSIVE RemoveMatches(_, _, _)
\* text.replace(regex, "") for a global regex given by the operator that
\* tries it at a position; `kind` selects the regex.
RemoveMatches(t, from, kind) ==
    LET EndAt(s) == CASE kind = "imgpara" -> ImgParaEndAt(t, s)
                      [] kind = "para" -> ParaEndAt(t, s)
                      [] kind = "tag" -> TagEndAt(t, s)
        starts == {s \in from..Len(t) : EndAt(s) # 0}
    IN  IF starts = {} THEN SubSeq(t, from, Len(t))
        ELSE SubSeq(t, from, Least(starts) - 1)
                 \o RemoveMatches(t, EndAt(Least(starts)) + 1, kind)

\* The chain of entity replacements of cleanContent, in its order.
DecodeEntities(t) ==
    ReplaceAllText(
      ReplaceAllText(
        ReplaceAllText(
          ReplaceAllText(
            ReplaceAllText(
              ReplaceAllText(t, <<"&", "n", "b", "s", "p", ";">>, <<" ">>),
              <<"&", "#", "0", "1", "5", "0", ";">>, <<"-">>),
            <<"&", "q", "u", "o", "t", ";">>, <<"\"">>),
          <<"&", "a", "m", "p", ";">>, <<"&">>),
        <<"&", "l", "t", ";">>, <<"<">>),
      <<"&", "g", "t", ";">>, <<">">>)

\* content.substring(0, content.indexOf("p ")) when "p " occurs.
StopAtP(t) ==
    IF IndexOfFrom(t, <<"p", " ">>, 1) = 0 THEN t
    ELSE SubSeq(t, 1, IndexOfFrom(t, <<"p", " ">>, 1) - 1)

\* ChgkInfoQuestionLoader.cleanContent(content, {removeImages, stopAtP}).
cleanContent(content, removeImages, stopAtP) ==
    Trim(DecodeEntities(
        RemoveMatches(
            RemoveMatches(
                IF stopAtP
                THEN StopAtP(IF removeImages THEN RemoveMatches(content, 1, "imgpara")
                             ELSE content)
                ELSE IF removeImages THEN RemoveMatches(content, 1, "imgpara")
                ELSE content,
                1, "para"),
            1, "tag")))

\* cleaned.replace(/[<>]/g, "")
StripAngles(t) == SelectSeq(t, LAMBDA c : c \notin {"<", ">"})

\* parseQuestion(content, result)
parseQuestion(content, result) ==
    [result EXCEPT !.questionPreview = @ \o ChgkExtractImages(content, 1),
                   !.question = cleanContent(content, TRUE, FALSE)]

\* parseAnswer(content, result)
parseAnswer(content, result) ==
    [result EXCEPT !.answer = StripAngles(cleanContent(content, FALSE, TRUE))]

\* parseDescription(content, result)
parseDescription(content, result) ==
    [result EXCEPT !.description = StripAngles(cleanContent(content, FALSE, TRUE))]

RECURSIVE processMatches_toEnd(_, _, _, _)
\* A processMatches whose sections all run to the end of the page.
processMatches_toEnd(html, strongMatches, i, result) ==
    IF i > Len(strongMatches) THEN result
    ELSE LET content == SubSeq(html, strongMatches[i].last + 1, Len(html))
         IN  processMatches_toEnd(html, strongMatches, i + 1,
                 IF Includes(strongMatches[i].text, QuestionLabel)
                 THEN parseQuestion(content, result)
                 ELSE IF Includes(strongMatches[i].text, AnswerLabel)
                 THEN parseAnswer(content, result)
                 ELSE IF Includes(strongMatches[i].text, CommentLabel)
                 THEN parseDescription(content, result)
                 ELSE result)

RECURSIVE processMatches(_, _, _, _)
\* processMatches(html, strongMatches, result), from the i-th match on.
processMatches(html, strongMatches, i, result) ==
    IF i > Len(strongMatches) THEN result
    ELSE LET content ==
                 SubSeq(html, strongMatches[i].last + 1,
                        IF i < Len(strongMatches)
                        THEN strongMatches[i + 1].index - 1
                        ELSE Len(html))
         IN  processMatches(html, strongMatches, i + 1,
                 IF Includes(strongMatches[i].text, QuestionLabel)
                 THEN parseQuestion(content, result)
                 ELSE IF Includes(strongMatches[i].text, AnswerLabel)
                 THEN parseAnswer(content, result)
                 ELSE IF Includes(strongMatches[i].text, CommentLabel)
                 THEN parseDescription(content, result)
                 ELSE result)

\* cleanupResult(result): an empty questionPreview and a falsy description
\* are deleted.
cleanupResult(result) ==
    [f \in DOMAIN result
            \ ((IF result.questionPreview = <<>> THEN {"questionPreview"} ELSE {})
               \cup (IF result.description = <<>> THEN {"description"} ELSE {}))
        |-> result[f]]

\* ChgkInfoQuestionLoader.loadQuestion once the fetch has answered: `resp`
\* is the response ([throws, ok, html]).
ChgkLoadResult(resp) ==
    IF resp.throws
    THEN LoadError(resp.thrown)
    ELSE IF ~resp.ok
    THEN LoadError(<<"HTTP error! status: ">> \o IntText(resp.status))
    ELSE [ok |-> TRUE,
          data |-> cleanupResult(
                      processMatches(resp.html, StrongMatches(resp.html, 1), 1,
                          [question |-> <<>>, answer |-> <<>>, description |-> <<>>,
                           questionPreview |-> <<>>]))]

(***************************************************************************)
(* The delivery channel and the webhook's texts                            *)
(***************************************************************************)
RECURSIVE BackslashesBefore(_, _)
\* The number of backslashes that stand right before position p.
BackslashesBefore(t, p) ==
    IF p > 1 /\ t[p - 1] = "\\" THEN 1 + BackslashesBefore(t, p - 1) ELSE 0

\* Whether the character at p follows an odd number of backslashes.
IsEscaped(t, p) == BackslashesBefore(t, p) % 2 = 1

\* The characters MarkdownV2 accepts only escaped, wherever they stand
\* outside a link's url.
MustEscape == {">", "#", "+", "-", "=", "{", "}", ".", "!"}

\* Whether the channel renders text t sent with parse_mode MarkdownV2 (it
\* answers 400 "can't parse entities" otherwise): outside the url of a link
\* every character of MustEscape is escaped, every bracket is escaped or
\* part of a link, and the emphasis markers pair up.
Renders(t) ==
    LET ms == LinkMatches(t, 1)
        urlStart(i) == IndexFrom(t, "]", ms[i][1] + 1) + 1
        InUrl(p) == \E i \in 1..Len(ms) : urlStart(i) < p /\ p < ms[i][2]
        Structural(p) ==
            \E i \in 1..Len(ms) : p \in {ms[i][1], urlStart(i) - 1, urlStart(i), ms[i][2]}
        stars == {p \in 1..Len(t) : t[p] = "*" /\ ~IsEscaped(t, p) /\ ~InUrl(p)}
    IN  /\ \A p \in 1..Len(t) :
               (t[p] \in MustEscape /\ ~InUrl(p)) => IsEscaped(t, p)
        /\ \A p \in 1..Len(t) :
               (t[p] \in {"[", "]", "(", ")"} /\ ~InUrl(p) /\ ~IsEscaped(t, p))
                   => Structural(p)
        /\ Cardinality(stars) % 2 = 0

\* The notice of an expired answer, sent with parse_mode MarkdownV2 by the
\* later revision: two sentences, the first ending in a full stop.
ExpiredNotice ==
    <<"T", " ", "t", "i", "m", "e", " ", "o", "u", "t", ".", "\n",
      "s", "e", "e", " ", "l", "i", "n", "k", " ", "^">>

\* The prompt of /menu, sent with parse_mode MarkdownV2.
MenuPrompt == <<"?", " ", "p", "i", "c", "k", ":">>

\* const target = "gotquestions.online"
target == "gotquestions.online"

\* Object.keys(loaderMap)
loaderMapKeys == <<"questions.chgk.info", "gotquestions.online">>

\* The constructor of ChgkInfoQuestionLoader: it declares no parameter, so
\* the complexity handed to it is dropped.
ChgkConstructor(complexity) ==
    [ok |-> TRUE, adapter |-> "chgk", complexity |-> "none"]

\* The factory QuestionLoader(target, complexity): the loader it returns, or
\* the error it throws.  loaderMap[target] of an inherited name is not
\* undefined: "constructor" finds Object, and new Object(complexity) is
\* returned; the other inherited names find values `new` cannot construct.
QuestionLoader(tgt0, complexity0) ==
    LET tgt == DefaultArg(tgt0, "gotquestions.online")
        complexity == DefaultArg(complexity0, "random")
    IN  IF tgt = "questions.chgk.info" THEN ChgkConstructor(complexity)
        ELSE IF tgt = "gotquestions.online" THEN GotConstructor(complexity)
        ELSE IF tgt = "constructor"
        THEN [ok |-> TRUE, adapter |-> "object", complexity |-> "none"]
        ELSE IF tgt \in ObjectPrototypeNames
        THEN [ok |-> FALSE,
              error |-> ErrorOf("TypeError", <<"LoaderClass is not a constructor">>)]
        ELSE [ok |-> FALSE,
              error |-> ErrorOf("Error",
                           <<"Unknown target: ", tgt, ". Available targets: ">>
                               \o Join([i \in 1..Len(loaderMapKeys) |-> <<loaderMapKeys[i]>>],
                                       <<", ">>))]

\* `answer:${chatId}:${questionData.id}` of the later revision; the record
\* parseQuestionData returns has no id, so the template prints "undefined".
AnswerKeyById(chatId, questionData) ==
    <<"a", "n", "s", "w", "e", "r", ":">> \o IntText(chatId) \o <<":">>
        \o NumFieldText(questionData, "id")

\* `answer:${chatId}:${Date.now()}` of the earlier revision.
AnswerKeyByTime(chatId, time) ==
    <<"a", "n", "s", "w", "e", "r", ":">> \o IntText(chatId) \o <<":">> \o IntText(time)

RECURSIVE Split(_, _)
\* String.prototype.split(sep) for a one-character separator.
Split(t, sep) ==
    LET p == IndexFrom(t, sep, 1)
    IN  IF p = 0 THEN <<t>>
        ELSE <<SubSeq(t, 1, p - 1)>> \o Split(SubSeq(t, p + 1, Len(t)), sep)

\* answerKey.split(":").at(2)
QuestionIdOfKey(key) ==
    LET parts == Split(key, ":")
    IN  IF Len(parts) >= 3 THEN parts[3] ELSE UndefinedText

(***************************************************************************)
(* The state of the dispatcher                                             *)
(***************************************************************************)
dvars == <<rev, faulty, now, cache, buttons, inflight, started, ev, reveals, consumed, expired>>
evars == <<text, escaped, epc>>
vars == <<dvars, evars, load, call>>

\* The chats of the model; a group chat has a negative identifier.
Chats == {-5, 7}

\* The chats that send commands: both over the transport that delivers every
\* call, one where any call may fail (a fault does not depend on the chat).
ActiveChats == IF faulty THEN {7} ELSE Chats

\* No message.
NoMsg == <<0, "none">>

\* The stored payload {answer, answerPreview, questionMessageId}; `origin`
\* (history) is the invocation that wrote it and the source identifier of
\* the item it delivered, `ttl` the seconds setEx gives the entry to live
\* (0 before the write).
Payload(answer, answerPreview, hasQmid, qmid, origin) ==
    [answer |-> answer, answerPreview |-> answerPreview,
     hasQmid |-> hasQmid, qmid |-> qmid, origin |-> origin, ttl |-> 0]

NoPayload == Payload(<<>>, <<>>, FALSE, NoMsg, <<0, 0>>)

\* What an invocation has done so far: its calls of the loader, its sends
\* and cache writes, the sends the channel refused to render, whether a
\* call failed in transit, and whether the progress notice was sent and
\* whether it was deleted.
Counters ==
    [loads |-> 0, loadOk |-> FALSE, errMsgs |-> 0, qSends |-> 0, btns |-> 0,
     writes |-> 0, rejects |-> 0, faulted |-> FALSE, progress |-> FALSE,
     removed |-> FALSE]

\* The record of a finished invocation.
Event(kind, c, later, found, answered, notice, alert, status) ==
    [kind |-> kind, later |-> later, found |-> found, answered |-> answered,
     notice |-> notice, alert |-> alert, status |-> status,
     loads |-> c.loads, loadOk |-> c.loadOk, errMsgs |-> c.errMsgs,
     qSends |-> c.qSends, btns |-> c.btns, writes |-> c.writes,
     rejects |-> c.rejects, faulted |-> c.faulted, progress |-> c.progress,
     removed |-> c.removed]

NoEvent == Event("none", Counters, FALSE, FALSE, FALSE, 0, 0, 0)

\* The dispatcher before any update has arrived.
DispatchQuiet ==
    /\ now = 0
    /\ cache = <<>>
    /\ buttons = {}
    /\ inflight = {}
    /\ started = 0
    /\ ev = NoEvent
    /\ reveals = {}
    /\ consumed = {}
    /\ expired = {}

\* No load run.
NoLoad ==
    [pc |-> "idle", target |-> "none", asked |-> "none", adapter |-> "none",
     complexity |-> "none", params |-> <<>>, pages |-> 0, fetches |-> 0,
     upage |-> 0, page |-> 0, resp |-> [throws |-> FALSE, ok |-> FALSE],
     uidx |-> 0, idx |-> 0,
     result |-> [ok |-> FALSE, error |-> ErrorOf("none", <<>>)]]

LoadQuiet == load = NoLoad

\* No function run.
NoCall == [fn |-> "none", pc |-> "off"]

CallQuiet == call = NoCall

\* No escape run.
EscapeQuiet ==
    /\ text = <<>>
    /\ escaped = NoText
    /\ epc = "off"

(***************************************************************************)
(* The escape run: escapeMarkdownV2 applied to one input text              *)
(***************************************************************************)
\* What the input texts are made of: a reserved character, the emphasis
\* character, brackets, and the two halves of a link.
Pieces ==
    { <<".">>, <<"*">>, <<"[">>, <<")">>, <<"]", "(">>,
      <<"[", "a", "]", "(">>, <<"b", ")">> }

Inputs == {Concat(ps) : ps \in UNION {[1..n -> Pieces] : n \in 0..MaxPieces}}

EscapeInit ==
    /\ text \in Inputs
    /\ escaped = NoText
    /\ epc = "input"
    /\ rev = 2
    /\ faulty = FALSE
    /\ DispatchQuiet
    /\ LoadQuiet
    /\ CallQuiet

\* One call escapeMarkdownV2(text) of the link-preserving revision.
EscapeCall ==
    /\ epc = "input"
    /\ escaped' = escapeMarkdownV2(text)
    /\ epc' = "done"
    /\ UNCHANGED <<text, dvars, load, call>>

\* One call escapeMarkdownV2(text) of the revision without link protection.
EscapeCallPlain ==
    /\ epc = "input"
    /\ escaped' = escapeMarkdownV2Plain(text)
    /\ epc' = "done_plain"
    /\ UNCHANGED <<text, dvars, load, call>>

EscapeNext == EscapeCall \/ EscapeCallPlain

SpecEscape == EscapeInit /\ [][EscapeNext]_vars

\* The reserved set the claims name.
Reserved == Range(specialChars)

\* Position p of t lies inside a [label](url) construct of t.
InLink(t, p) == \E s \in 1..p : LinkEndAt(t, s) >= p

\* Every reserved character outside a link construct follows a backslash.
ReservedEscaped(t) ==
    \A p \in 1..Len(t) :
        (t[p] \in Reserved /\ ~InLink(t, p)) => (p > 1 /\ t[p - 1] = "\\")

\* No emphasis character follows a backslash.
StarUnescaped(t) ==
    \A p \in 1..Len(t) : t[p] = "*" => (p = 1 \/ t[p - 1] # "\\")

\* C10: whichever revision of escapeMarkdownV2 ran, every reserved character
\* of the result outside a [label](url) construct follows a backslash, the
\* emphasis character * is not escaped, and every substring of the input that
\* has the form [label](url) appears unchanged in the result.
C10_EscapeKeepsLinks ==
    epc \in {"done", "done_plain"} =>
        /\ ReservedEscaped(escaped)
        /\ StarUnescaped(escaped)
        /\ \A s \in 1..Len(text) :
               LinkEndAt(text, s) # 0 =>
                   Includes(escaped, SubSeq(text, s, LinkEndAt(text, s)))

\* C10, the case that fails in the link-preserving revision: of two
\* constructs that overlap, the scan protects the first, and the brackets of
\* the second come out escaped.
C10_OverlapEscaped ==
    /\ epc = "done"
    /\ text = <<"[", "a", "]", "(", "[", ")", "]", "(", "b", ")">>
    /\ escaped = <<"[", "a", "]", "(", "[", ")", "\\", "]", "\\", "(", "b", "\\", ")">>

(***************************************************************************)
(* The webhook dispatcher                                                  *)
(***************************************************************************)
\* Two items of the JSON API: one without pictures and with acceptance
\* statistics, one with a question picture and an answer picture.
ItemA ==
    [id |-> 7, text |-> <<"a", ".">>, razdatkaText |-> <<>>, razdatkaPic |-> <<>>,
     answer |-> <<"b">>, zachet |-> <<>>, comment |-> <<>>,
     complexity |-> <<40, 60>>, answerPic |-> <<>>, commentPic |-> <<>>]

ItemB ==
    [id |-> 8, text |-> <<"c">>, razdatkaText |-> <<>>, razdatkaPic |-> <<"/", "p">>,
     answer |-> <<"d">>, zachet |-> <<>>, comment |-> <<>>,
     complexity |-> <<>>, answerPic |-> <<"/", "r">>, commentPic |-> <<>>]

\* What a fetch of the search API can answer.
Responses ==
    { [throws |-> TRUE, thrown |-> <<"fetch failed">>, ok |-> FALSE, status |-> 0,
       questions |-> <<>>],
      [throws |-> FALSE, thrown |-> <<>>, ok |-> FALSE, status |-> 500,
       questions |-> <<>>],
      [throws |-> FALSE, thrown |-> <<>>, ok |-> TRUE, status |-> 200,
       questions |-> <<>>],
      [throws |-> FALSE, thrown |-> <<>>, ok |-> TRUE, status |-> 200,
       questions |-> <<ItemA, ItemB>>] }

\* The commands of the model that start a question turn.
Commands == {"/question", "/questioneasy"}

\* The tier a command text selects: complexityMap[messageText] || "random"
\* in the later revision; complexity[messageText], whose absence the
\* factory's default parameter turns into "random", in the earlier one.
TierOfCommand(cmd) ==
    CASE cmd = "/question" -> "random"
      [] cmd = "/questioneasy" -> "easy"
      [] cmd = "/questionmedium" -> "medium"
      [] cmd = "/questionhard" -> "hard"
      [] OTHER -> "random"

\* The calls of a question turn that come before its first cache write, and
\* the calls of the other steps; a step's fault set names the calls of the
\* step that fail for a reason of the transport.
StartCalls == {"loading", "delete", "media", "button", "text", "errmsg"}

\* The values of a function.
Image(f) == {f[x] : x \in DOMAIN f}

\* The fault sets of a step whose calls are S.
Faults(S) == IF faulty THEN SUBSET S ELSE {{}}

\* Whether one more invocation may start.
MayStart == started < (IF faulty THEN MaxFaultyInv ELSE MaxInv)

\* The tiers the commands of the model select.
Tiers == {TierOfCommand(cmd) : cmd \in Commands}

\* Every result loadQuestion can return to a question turn of a tier.
LoadResults ==
    [cx \in Tiers |->
        {GotLoadResult(cx, resp, idx) :
            resp \in Responses, idx \in 0..1}]

\* The texts formatForTelegram(questionData, true, false) returns for the
\* records of LoadResults.
Formatted ==
    [d \in UNION {{lo.data : lo \in {x \in LoadResults[cx] : x.ok}} : cx \in Tiers} |->
        formatForTelegram(d, TRUE, FALSE)]

\* Renders, for the texts the dispatcher sends with parse_mode MarkdownV2.
RendersSent ==
    [t \in {ExpiredNotice, MenuPrompt}
            \cup UNION {{f.question, f.answer} : f \in Image(Formatted)} |->
        Renders(t)]

\* The cache key of a question turn.
AnswerKey(chatId, questionData) ==
    IF rev = 1 THEN AnswerKeyByTime(chatId, now) ELSE AnswerKeyById(chatId, questionData)

\* The reveal button a message carries: its callback data hold the key (as
\* JSON in the later revision); `item` (history) is the source identifier of
\* the question the message shows.
Button(chatId, key, msg, item) ==
    [chat |-> chatId, key |-> key, msg |-> msg, item |-> item]

\* A catch of a question turn that logs the error and sends nothing.
QuestionFailed_silent(c, F, made) ==
    [next |-> "fail", key |-> <<>>, payload |-> NoPayload, newButtons |-> {},
     made |-> made, question |-> <<>>, status |-> 200, c |-> c]

\* The catch of a question turn: one "could not load" message.  In the
\* earlier revision a failure of that send reaches the outer catch (500).
QuestionFailed(c, F, made) ==
    [next |-> "fail", key |-> <<>>, payload |-> NoPayload, newButtons |-> {},
     made |-> made \cup {"errmsg"}, question |-> <<>>,
     status |-> IF rev = 1 /\ "errmsg" \in F THEN 500 ELSE 200,
     c |-> [c EXCEPT !.errMsgs = c.errMsgs + 1]]

\* The text fallback, and the path of a question without pictures:
\* bot.sendMessage(chatId, question, {parse_mode: "MarkdownV2", reply_markup}).
SendQuestionText(id, chatId, key, payload, question, c, F, made) ==
    IF "text" \in F
    THEN QuestionFailed(c, F, made \cup {"text"})
    ELSE IF ~RendersSent[question]
    THEN QuestionFailed([c EXCEPT !.rejects = c.rejects + 1], F, made \cup {"text"})
    ELSE [next |-> "q_store", key |-> key, payload |-> payload,
          newButtons |-> {Button(chatId, key, <<id, "text">>, payload.origin[2])},
          made |-> made \cup {"text"}, status |-> 200, question |-> question,
          c |-> [c EXCEPT !.qSends = c.qSends + 1, !.btns = c.btns + 1]]

\* sendQuestionMessage once the question is loaded and formatted: the media
\* group and the message that carries the button, or the question as a text.
DeliverQuestion(id, chatId, item, questionData, fmt, key, c1, F) ==
    LET plain == Payload(fmt.answer, Field(questionData, "answerPreview", <<>>),
                         FALSE, NoMsg, <<id, item>>)
        made1 == {"loading", "delete"}
    IN  IF Len(Field(questionData, "questionPreview", <<>>)) > 0
        THEN IF "media" \in F \/ ~RendersSent[fmt.question]
             THEN SendQuestionText(id, chatId, key, plain, fmt.question,
                                   IF "media" \in F THEN c1
                                   ELSE [c1 EXCEPT !.rejects = 1],
                                   F, made1 \cup {"media"})
             ELSE IF "button" \in F
             THEN SendQuestionText(id, chatId, key, plain, fmt.question,
                                   [c1 EXCEPT !.qSends = 1], F,
                                   made1 \cup {"media", "button"})
             ELSE [next |-> IF rev = 1 THEN "q_store" ELSE "q_store_m",
                   key |-> key,
                   payload |-> IF rev = 1 THEN plain
                               ELSE [plain EXCEPT !.hasQmid = TRUE,
                                                  !.qmid = <<id, "media">>],
                   newButtons |-> {Button(chatId, key, <<id, "button">>, item)},
                   made |-> made1 \cup {"media", "button"}, status |-> 200,
                   question |-> fmt.question,
                   c |-> [c1 EXCEPT !.qSends = 1, !.btns = 1]]
        ELSE SendQuestionText(id, chatId, key, plain, fmt.question, c1, F, made1)

\* A question turn up to its first cache write: the progress notice, the
\* load, the deletion of the notice, and the delivery of the question and of
\* its reveal button.  `lo` is the result of loadQuestion, F the fault set.
SendQuestionStart(id, chatId, complexity, lo, F) ==
    LET c0 == [Counters EXCEPT !.faulted = (F # {})]
        c1 == [c0 EXCEPT !.progress = TRUE]
    IN  IF "loading" \in F
        THEN QuestionFailed(c0, F, {"loading"})
        ELSE IF ~QuestionLoader(target, complexity).ok
        THEN QuestionFailed(c1, F, {"loading"})
        ELSE IF ~lo.ok
        THEN QuestionFailed([c1 EXCEPT !.loads = 1], F, {"loading"})
        ELSE IF rev = 1 /\ "delete" \in F
        THEN QuestionFailed([c1 EXCEPT !.loads = 1, !.loadOk = TRUE], F,
                            {"loading", "delete"})
        ELSE DeliverQuestion(id, chatId, lo.item, lo.data, Formatted[lo.data],
                             AnswerKey(chatId, lo.data),
                             [c1 EXCEPT !.loads = 1, !.loadOk = TRUE,
                                        !.removed = "delete" \notin F], F)

\* An invocation suspended at an await.
Inflight(id, kind, pc, chatId, key, payload, msg, item, later, fmtq, c) ==
    [id |-> id, kind |-> kind, pc |-> pc, chat |-> chatId, key |-> key,
     payload |-> payload, msg |-> msg, item |-> item, later |-> later,
     question |-> fmtq, c |-> c]

\* A message whose text starts with /question arrives: the question turn
\* runs up to its first cache write, or fails and ends.
StartQuestion ==
    /\ MayStart
    /\ \E chatId \in ActiveChats, cmd \in Commands, F \in Faults(StartCalls) :
         \E lo \in LoadResults[TierOfCommand(cmd)] :
          \E r \in {SendQuestionStart(started + 1, chatId, TierOfCommand(cmd), lo, F)} :
            /\ F \subseteq r.made
            /\ started' = started + 1
            /\ buttons' = buttons \cup r.newButtons
            /\ IF r.next = "fail"
               THEN /\ inflight' = inflight
                    /\ ev' = Event("question", r.c, FALSE, FALSE, FALSE, 0, 0, r.status)
               ELSE /\ inflight' = inflight \cup
                        {Inflight(started + 1, "question", r.next, chatId, r.key,
                                  r.payload, NoMsg, r.payload.origin[2], FALSE,
                                  r.question, r.c)}
                    /\ ev' = ev
            /\ UNCHANGED <<rev, faulty, now, cache, reveals, consumed, expired, evars, load, call>>

\* The cache without key k.
CacheDel(c, k) == [x \in DOMAIN c \ {k} |-> c[x]]

\* The second argument of every setEx of a revision: 3600 in the earlier
\* one, 3600 * 24 in the later one.
TimeToLive == IF rev = 1 THEN 3600 ELSE 3600 * 24

\* redisClient.setEx(key, ttl, JSON.stringify(payload)).
CacheSet(c, k, v) == (k :> [v EXCEPT !.ttl = TimeToLive]) @@ c

\* The later revision's setEx of the media-group path, inside the try whose
\* catch is the text fallback: a failed write sends the question again as a
\* text with a second button and goes on to the plain write.
StoreMedia ==
    \E r \in inflight, F \in Faults({"setex", "text", "errmsg"}) :
        /\ r.pc = "q_store_m"
        /\ IF "setex" \notin F
           THEN /\ F = {}
                /\ cache' = CacheSet(cache, r.key, r.payload)
                /\ consumed' = consumed \ {r.key}
                /\ expired' = expired \ {r.key}
                /\ inflight' = inflight \ {r}
                /\ buttons' = buttons
                /\ ev' = Event("question", [r.c EXCEPT !.writes = r.c.writes + 1],
                               FALSE, FALSE, FALSE, 0, 0, 200)
           ELSE \E f \in {SendQuestionText(r.id, r.chat, r.key,
                                    [r.payload EXCEPT !.hasQmid = FALSE, !.qmid = NoMsg],
                                    r.question, [r.c EXCEPT !.faulted = TRUE],
                                    F, {"setex"})} :
                    /\ F \subseteq f.made
                    /\ buttons' = buttons \cup f.newButtons
                    /\ UNCHANGED <<cache, consumed, expired>>
                    /\ IF f.next = "fail"
                       THEN /\ inflight' = inflight \ {r}
                            /\ ev' = Event("question", f.c, FALSE, FALSE, FALSE,
                                           0, 0, f.status)
                       ELSE /\ inflight' = (inflight \ {r}) \cup
                                {[r EXCEPT !.pc = "q_store", !.payload = f.payload,
                                            !.c = f.c]}
                            /\ ev' = ev
        /\ UNCHANGED <<rev, faulty, now, started, reveals, evars, load, call>>

\* The setEx that ends a question turn; its failure reaches the catch of the
\* turn.
Store ==
    \E r \in inflight, F \in Faults({"setex", "errmsg"}) :
        /\ r.pc = "q_store"
        /\ IF "setex" \notin F
           THEN /\ F = {}
                /\ cache' = CacheSet(cache, r.key, r.payload)
                /\ consumed' = consumed \ {r.key}
                /\ expired' = expired \ {r.key}
                /\ ev' = Event("question", [r.c EXCEPT !.writes = r.c.writes + 1],
                               FALSE, FALSE, FALSE, 0, 0, 200)
           ELSE \E f \in {QuestionFailed([r.c EXCEPT !.faulted = TRUE], F, {"setex"})} :
                    /\ UNCHANGED <<cache, consumed, expired>>
                    /\ ev' = Event("question", f.c, FALSE, FALSE, FALSE, 0, 0, f.status)
        /\ inflight' = inflight \ {r}
        /\ UNCHANGED <<rev, faulty, now, buttons, started, reveals, evars, load, call>>

\* A press of a reveal button arrives: the callback data are parsed and the
\* entry is read.  A missing entry ends the invocation with the expired
\* notice: an alert of the callback query in the earlier revision, a message
\* sent with parse_mode MarkdownV2 in the later one.  The catch of the branch
\* answers the callback query with the error alert; a failure of that call
\* reaches the outer catch (500).
PressGet ==
    /\ MayStart
    /\ \E b \in buttons, F \in Faults({"get", "notice", "alert"}) :
        LET id == started + 1
            later == b.key \in consumed
            c == [Counters EXCEPT !.faulted = (F # {})]
            caught == Event("press", c, later, FALSE, FALSE, 0, 1,
                            IF "alert" \in F THEN 500 ELSE 200)
        IN  /\ started' = id
            /\ IF "get" \in F
               THEN /\ F \subseteq {"get", "alert"}
                    /\ ev' = caught
                    /\ inflight' = inflight
               ELSE IF b.key \in DOMAIN cache
               THEN /\ F = {}
                    /\ ev' = ev
                    /\ inflight' = inflight \cup
                           {Inflight(id, "press", "p_send", b.chat, b.key, cache[b.key],
                                     b.msg, b.item, later, <<>>, c)}
               ELSE /\ inflight' = inflight
                    /\ IF "notice" \in F
                       THEN ev' = caught
                       ELSE IF rev = 2 /\ ~RendersSent[ExpiredNotice]
                       THEN ev' = Event("press", [c EXCEPT !.rejects = 1], later,
                                        FALSE, FALSE, 0, 1,
                                        IF "alert" \in F THEN 500 ELSE 200)
                       ELSE /\ F = {}
                            /\ ev' = Event("press", c, later, FALSE, FALSE, 1, 0, 200)
            /\ UNCHANGED <<rev, faulty, now, cache, buttons, reveals, consumed, expired, evars, load, call>>

\* A reveal branch that deletes the entry before it sends the answer: the
\* entry is gone also when no send succeeded.
PressFinish_delFirst ==
    \E r \in inflight, F \in Faults({"media", "text", "edit", "delmsg", "del", "alert"}) :
      \E renders \in {r.pc = "p_send" /\ RendersSent[r.payload.answer]} :
        LET v == r.payload
            c == [r.c EXCEPT !.faulted = (F # {}),
                             !.rejects = IF renders THEN 0 ELSE 1]
            hasMedia == Len(v.answerPreview) > 0
            mediaOk == hasMedia /\ "media" \notin F /\ renders
            sent == mediaOk \/ ("text" \notin F /\ renders)
            helper == rev = 2 /\ v.hasQmid
            made == (IF hasMedia THEN {"media"} ELSE {})
                    \cup (IF mediaOk THEN {} ELSE {"text"})
                    \cup (IF sent THEN {"edit", "del"} ELSE {"alert"})
                    \cup (IF sent /\ helper THEN {"delmsg"} ELSE {})
                    \cup (IF "del" \in F THEN {"alert"} ELSE {})
            status == IF "alert" \in F /\ (~sent \/ "del" \in F) THEN 500 ELSE 200
        IN  /\ r.pc = "p_send"
            /\ F \subseteq made
            /\ inflight' = inflight \ {r}
            /\ IF ~sent
               THEN /\ ev' = Event("press", c, r.later, TRUE, FALSE, 0, 1, status)
                    /\ cache' = CacheDel(cache, r.key)
                    /\ consumed' = consumed \cup {r.key}
                    /\ UNCHANGED <<reveals, expired>>
               ELSE /\ reveals' = reveals \cup
                           {[origin |-> v.origin, press |-> r.id,
                             button |-> r.msg[1], item |-> r.item]}
                    /\ IF "del" \in F
                       THEN /\ UNCHANGED <<cache, consumed, expired>>
                            /\ ev' = Event("press", c, r.later, TRUE, TRUE, 0, 1, status)
                       ELSE /\ cache' = CacheDel(cache, r.key)
                            /\ consumed' = consumed \cup {r.key}
                            /\ expired' = expired
                            /\ ev' = Event("press", c, r.later, TRUE, TRUE, 0, 0, 200)
            /\ UNCHANGED <<rev, faulty, now, buttons, started, evars, load, call>>

\* The rest of a press that found its entry: the answer is sent (as a media
\* group with the text fallback, or as a text), the keyboard of the pressed
\* message is emptied, and the entry is deleted.  The button stays in
\* `buttons`: a client that has not yet shown the edit can still press it.
PressFinish ==
    \E r \in inflight, F \in Faults({"media", "text", "edit", "delmsg", "del", "alert"}) :
      \E renders \in {r.pc = "p_send" /\ RendersSent[r.payload.answer]} :
        LET v == r.payload
            c == [r.c EXCEPT !.faulted = (F # {}),
                             !.rejects = IF renders THEN 0 ELSE 1]
            hasMedia == Len(v.answerPreview) > 0
            mediaOk == hasMedia /\ "media" \notin F /\ renders
            sent == mediaOk \/ ("text" \notin F /\ renders)
            helper == rev = 2 /\ v.hasQmid
            made == (IF hasMedia THEN {"media"} ELSE {})
                    \cup (IF mediaOk THEN {} ELSE {"text"})
                    \cup (IF sent THEN {"edit", "del"} ELSE {"alert"})
                    \cup (IF sent /\ helper THEN {"delmsg"} ELSE {})
                    \cup (IF "del" \in F THEN {"alert"} ELSE {})
            status == IF "alert" \in F /\ (~sent \/ "del" \in F) THEN 500 ELSE 200
        IN  /\ r.pc = "p_send"
            /\ F \subseteq made
            /\ inflight' = inflight \ {r}
            /\ IF ~sent
               THEN /\ ev' = Event("press", c, r.later, TRUE, FALSE, 0, 1, status)
                    /\ UNCHANGED <<cache, reveals, consumed, expired>>
               ELSE /\ reveals' = reveals \cup
                           {[origin |-> v.origin, press |-> r.id,
                             button |-> r.msg[1], item |-> r.item]}
                    /\ IF "del" \in F
                       THEN /\ UNCHANGED <<cache, consumed, expired>>
                            /\ ev' = Event("press", c, r.later, TRUE, TRUE, 0, 1, status)
                       ELSE /\ cache' = CacheDel(cache, r.key)
                            /\ consumed' = consumed \cup {r.key}
                            /\ expired' = expired
                            /\ ev' = Event("press", c, r.later, TRUE, TRUE, 0, 0, 200)
            /\ UNCHANGED <<rev, faulty, now, buttons, started, evars, load, call>>

\* A message whose text starts with /menu arrives at the later revision:
\* the prompt is sent with parse_mode MarkdownV2 and the tier keyboard.  The
\* send is in no try of the branch, so its failure reaches the outer catch.
Menu ==
    /\ rev = 2
    /\ MayStart
    /\ \E F \in Faults({"menu"}) :
        /\ started' = started + 1
        /\ ev' = IF "menu" \in F
                 THEN Event("menu", [Counters EXCEPT !.faulted = TRUE],
                            FALSE, FALSE, FALSE, 0, 0, 500)
                 ELSE IF ~RendersSent[MenuPrompt]
                 THEN Event("menu", [Counters EXCEPT !.rejects = 1],
                            FALSE, FALSE, FALSE, 0, 0, 500)
                 ELSE Event("menu", Counters, FALSE, FALSE, FALSE, 0, 0, 200)
    /\ UNCHANGED <<rev, faulty, now, cache, buttons, inflight, reveals, consumed, expired, evars, load, call>>

\* The time-to-live of an entry elapses, cache[k].ttl seconds after its
\* write, and the store drops the entry.
Expire ==
    \E k \in DOMAIN cache :
        /\ cache' = CacheDel(cache, k)
        /\ expired' = expired \cup {k}
        /\ UNCHANGED <<rev, faulty, now, buttons, inflight, started, ev, reveals, consumed, evars, load, call>>

\* A millisecond passes on the clock the earlier revision builds its keys from.
Tick ==
    /\ rev = 1
    /\ now < MaxTime
    /\ now' = now + 1
    /\ UNCHANGED <<rev, faulty, cache, buttons, inflight, started, ev, reveals, consumed, expired, evars, load, call>>

Init ==
    /\ rev \in {1, 2}
    /\ faulty = FALSE
    /\ DispatchQuiet
    /\ EscapeQuiet
    /\ LoadQuiet
    /\ CallQuiet

InitFaulty ==
    /\ rev \in {1, 2}
    /\ faulty = TRUE
    /\ DispatchQuiet
    /\ EscapeQuiet
    /\ LoadQuiet
    /\ CallQuiet

Next ==
    \/ StartQuestion
    \/ StoreMedia
    \/ Store
    \/ PressGet
    \/ PressFinish
    \/ Menu
    \/ Expire
    \/ Tick

\* The dispatcher over a transport that delivers every call: a send fails
\* only when the channel cannot render its text, a load only as the source
\* answers.
Spec == Init /\ [][Next]_vars

\* The dispatcher over a transport on which any call may fail.
SpecFaulty == InitFaulty /\ [][Next]_vars

(***************************************************************************)
(* One call of the factory and of loadQuestion                             *)
(***************************************************************************)
\* The sources the factory is asked for: the two it knows, one it does not
\* know, an inherited name, and none (the default applies).
Targets ==
    {"questions.chgk.info", "gotquestions.online", "unknown-source", "constructor",
     "undefined"}

\* The tiers the factory is asked for: the four of the table, one the table
\* does not know, an inherited name, and none (the default applies).
LoadTiers == {"random", "easy", "medium", "hard", "expert", "constructor", "undefined"}

\* The values Math.random() returns, as numerators over RandomDenominator:
\* the least, the next, the middle and the greatest value below 1.
RandomDraws == {0, 1, RandomDenominator \div 2, RandomDenominator - 1}

\* Math.round(Math.random() * n) for the draw u: a draw that rounds to the
\* nearest integer and so reaches n.
RandomBelow_round(u, n) == (2 * u * n + RandomDenominator) \div (2 * RandomDenominator)

\* Math.floor(Math.random() * n) for the draw u.
RandomBelow(u, n) == (u * n) \div RandomDenominator

\* The references a source gives for a picture: root-relative, relative
\* without a leading slash, and absolute.
PicRefs == {<<"/", "p">>, <<"p">>, <<"h", ":", "/", "/", "x", "/", "p">>}

\* Items of the JSON API for the load run: every combination of an absent,
\* a blank and a filled text and razdatkaText, of the picture references and
\* of an absent and a filled answer.
LoadItems ==
    { [id |-> 9, text |-> t, razdatkaText |-> rz, razdatkaPic |-> pic,
       answer |-> a, zachet |-> <<>>, comment |-> <<>>, complexity |-> <<>>,
       answerPic |-> <<>>, commentPic |-> pic] :
        t \in {<<>>, <<" ", " ">>, <<" ", "q", " ">>},
        rz \in {<<>>, <<" ", " ">>, <<" ", "r", " ">>},
        pic \in PicRefs \cup {<<>>},
        a \in {<<>>, <<"b">>} }

\* Items of the JSON API for the load run: every combination of an absent,
\* a blank and a filled zachet, of an absent and a filled comment, and of
\* an absent complexity, one with a whole mean and one whose mean (5/3) has
\* to be rounded.
DescriptionItems ==
    { [id |-> 9, text |-> <<"q">>, razdatkaText |-> <<>>, razdatkaPic |-> <<>>,
       answer |-> <<"b">>, zachet |-> z, comment |-> cm, complexity |-> cx,
       answerPic |-> <<>>, commentPic |-> <<>>] :
        z \in {<<>>, <<" ", " ">>, <<" ", "z", " ">>},
        cm \in {<<>>, <<" ", "c", " ">>},
        cx \in {<<>>, <<40, 60>>, <<1, 2, 2>>} }

\* What a fetch of the search API can answer in the load run.
GotResponses ==
    Responses
    \cup { [throws |-> FALSE, thrown |-> <<>>, ok |-> TRUE, status |-> 200,
            questions |-> <<it>>] : it \in DescriptionItems }
    \cup { [throws |-> FALSE, thrown |-> <<>>, ok |-> TRUE, status |-> 200,
            questions |-> <<it>>] : it \in LoadItems }

\* The labels of the sections of a page of the HTML source: the three the
\* loader knows and one it does not ("S:" stands for the sources label).
SectionLabels == {QuestionLabel, AnswerLabel, CommentLabel, <<"S", ":">>}

\* The text that marks the body of the i-th section of a page.
Marker(i) == <<"u", "v", "w", "y">>[i]

\* The i-th section of a page: the label in a strong element, then the body
\* and the paragraph tag that precedes the next label.
Section(label, i) ==
    StrongOpen \o label \o StrongClose \o <<" ", Marker(i), "\n", "<", "p", ">">>

\* A page whose question section shows a picture with the reference src.
PicturePage(src) ==
    StrongOpen \o QuestionLabel \o StrongClose
        \o ImgOpen \o src \o ImgClose \o <<"<", "/", "p", ">", "x">>

\* Pages of the HTML source as it writes them: a full page (question with a
\* picture and an entity, answer, commentary with a tag), a page whose
\* answer holds the marker at which stopAtP cuts, and a page without any
\* labelled section.
ChgkPages ==
    { StrongOpen \o QuestionLabel \o StrongClose
          \o <<"<", "p", ">", "<", "i", "m", "g", " ", "s", "r", "c", "=", "\"",
               "/", "i", "\"", ">", "<", "/", "p", ">", "x", " ", "&", "a", "m",
               "p", ";", " ", "y">>
          \o StrongOpen \o AnswerLabel \o StrongClose \o <<" ", "z", ".">>
          \o StrongOpen \o CommentLabel \o StrongClose \o <<" ", "<", "b", ">", "k", "<", "/", "b", ">">>,
      StrongOpen \o QuestionLabel \o StrongClose \o <<" ", "q", "?">>
          \o StrongOpen \o AnswerLabel \o StrongClose \o <<" ", "t", "o", "p", " ", "w">>,
      <<"<", "p", ">", "n", "o", "<", "/", "p", ">">> }

\* Pages of the HTML source with the labels of their sections (history):
\* every sequence of up to MaxSections sections, the pages with a picture,
\* and the pages of ChgkPages.
ChgkLoadPages ==
    { [labels |-> ls, html |-> Concat([i \in 1..Len(ls) |-> Section(ls[i], i)])] :
        ls \in UNION {[1..n -> SectionLabels] : n \in 0..MaxSections} }
    \cup { [labels |-> <<>>, html |-> PicturePage(src)] : src \in PicRefs }
    \cup { [labels |-> <<>>, html |-> h] : h \in ChgkPages }

\* What a fetch of the HTML source can answer.
ChgkResponses ==
    { [throws |-> TRUE, thrown |-> <<"fetch failed">>, ok |-> FALSE, status |-> 0,
       html |-> <<>>, labels |-> <<>>],
      [throws |-> TRUE, thrown |-> <<"HTTP error! status: ", "5", "0", "0">>,
       ok |-> FALSE, status |-> 0, html |-> <<>>, labels |-> <<>>],
      [throws |-> FALSE, thrown |-> <<>>, ok |-> FALSE, status |-> 500, html |-> <<>>,
       labels |-> <<>>] }
    \cup { [throws |-> FALSE, thrown |-> <<>>, ok |-> TRUE, status |-> 200,
            html |-> pg.html, labels |-> pg.labels] : pg \in ChgkLoadPages }

\* A caller about to ask the factory for a loader.
LoadInit ==
    /\ rev = 2
    /\ faulty = FALSE
    /\ DispatchQuiet
    /\ EscapeQuiet
    /\ CallQuiet
    /\ \E tgt \in Targets, complexity \in LoadTiers :
          load = [NoLoad EXCEPT !.pc = "new", !.target = tgt, !.asked = complexity]

\* QuestionLoader(target, complexity): the loader is made and loadQuestion
\* is about to be called on it, or the factory has thrown.  What new Object
\* returns for the inherited name is no loader and is called no further.
LoadCreate ==
    /\ load.pc = "new"
    /\ \E made \in {QuestionLoader(load.target, load.asked)} :
          load' = IF ~made.ok
                  THEN [load EXCEPT !.pc = "failed", !.result = made]
                  ELSE IF made.adapter = "gotq"
                  THEN [load EXCEPT !.pc = "call", !.adapter = "gotq",
                                    !.complexity = made.complexity,
                                    !.params = made.params, !.pages = made.pages]
                  ELSE [load EXCEPT !.pc = IF made.adapter = "chgk" THEN "call"
                                           ELSE "made",
                                    !.adapter = made.adapter,
                                    !.complexity = made.complexity]
    /\ UNCHANGED <<dvars, evars, call>>

\* `await fetch(url)`: the one place of loadQuestion that reaches the
\* network.  The JSON-API adapter draws its page first,
\* Math.floor(Math.random() * this.pages) + 1; the HTML adapter fetches its
\* fixed address.  A fetch that throws leaves through the catch.
LoadFetch ==
    /\ load.pc = "call"
    /\ \E u \in (IF load.adapter = "gotq" THEN RandomDraws ELSE {0}),
          resp \in (IF load.adapter = "gotq" THEN GotResponses ELSE ChgkResponses) :
          load' = [load EXCEPT
                      !.fetches = @ + 1,
                      !.upage = u,
                      !.page = IF load.adapter = "gotq"
                               THEN RandomBelow(u, load.pages) + 1 ELSE 0,
                      !.resp = resp,
                      !.pc = IF resp.throws THEN "done" ELSE "answered",
                      !.result = IF resp.throws
                                 THEN LoadError(resp.thrown)
                                 ELSE @]
    /\ UNCHANGED <<dvars, evars, call>>

\* A loadQuestion that fetches again when the first fetch brought no
\* question.
LoadFinish_retry ==
    /\ load.pc = "answered"
    /\ \E u \in (IF load.adapter = "gotq" /\ Len(load.resp.questions) > 0
                  THEN RandomDraws ELSE {0}) :
          \E r \in {IF load.adapter = "gotq"
                    THEN GotLoadResult(load.complexity, load.resp,
                                       RandomBelow(u, Len(load.resp.questions)))
                    ELSE ChgkLoadResult(load.resp)} :
             load' = [load EXCEPT
                         !.uidx = u,
                         !.idx = IF load.adapter = "gotq"
                                 THEN RandomBelow(u, Len(load.resp.questions)) ELSE 0,
                         !.result = r,
                         !.pc = IF ~r.ok /\ load.fetches < 2 THEN "call" ELSE "done"]
    /\ UNCHANGED <<dvars, evars, call>>

\* The rest of loadQuestion once the fetch has answered: the status check,
\* the body, the draw of the item
\* (Math.floor(Math.random() * data.questions.length)) and the parse; the
\* call returns its record or throws the wrapped error, and fetches no more.
LoadFinish ==
    /\ load.pc = "answered"
    /\ \E u \in (IF load.adapter = "gotq" /\ Len(load.resp.questions) > 0
                  THEN RandomDraws ELSE {0}) :
          \E r \in {IF load.adapter = "gotq"
                    THEN GotLoadResult(load.complexity, load.resp,
                                       RandomBelow(u, Len(load.resp.questions)))
                    ELSE ChgkLoadResult(load.resp)} :
             load' = [load EXCEPT
                         !.uidx = u,
                         !.idx = IF load.adapter = "gotq"
                                 THEN RandomBelow(u, Len(load.resp.questions)) ELSE 0,
                         !.result = r,
                         !.pc = "done"]
    /\ UNCHANGED <<dvars, evars, call>>

LoadNext == LoadCreate \/ LoadFetch \/ LoadFinish

\* One call of the factory and one call of loadQuestion on the loader it
\* returns, for every source, tier, draw and answer of the network.
SpecLoad == LoadInit /\ [][LoadNext]_vars

(***************************************************************************)
(* Function runs: one call of a function of the loaders                    *)
(***************************************************************************)
\* The state of a function run before its call: no dispatcher, escape or
\* load run is under way.
CallStart ==
    /\ rev = 2
    /\ faulty = FALSE
    /\ DispatchQuiet
    /\ EscapeQuiet
    /\ LoadQuiet

\* What the fragments handed to cleanContent are made of: plain text, bare
\* angle brackets, the two angle-bracket entities, a tag, the marker at
\* which stopAtP cuts, and a paragraph that carries an image.
FragPieces ==
    { <<"x">>, <<"<">>, <<">">>, <<"&", "l", "t", ";">>, <<"&", "g", "t", ";">>,
      <<"<", "b", ">">>, <<"p", " ">>,
      ImgOpen \o <<"/", "i">> \o ImgClose \o <<"<", "/", "p", ">">> }

Fragments == {Concat(ps) : ps \in UNION {[1..n -> FragPieces] : n \in 0..MaxFragPieces}}

CleanInit ==
    /\ CallStart
    /\ \E content \in Fragments, removeImages, stopAtP \in BOOLEAN :
          call = [fn |-> "cleanContent", pc |-> "input", content |-> content,
                  removeImages |-> removeImages, stopAtP |-> stopAtP, out |-> NoText]

\* One call cleanContent(content, {removeImages, stopAtP}).
CleanCall ==
    /\ call.fn = "cleanContent"
    /\ call.pc = "input"
    /\ call' = [call EXCEPT !.out = cleanContent(call.content, call.removeImages,
                                                 call.stopAtP),
                            !.pc = "done"]
    /\ UNCHANGED <<dvars, evars, load>>

SpecClean == CleanInit /\ [][CleanCall]_vars

\* C11: the text cleanContent returns holds neither "<" nor ">", whatever
\* the fragment and the options.
C11_NoAngleBrackets ==
    (call.fn = "cleanContent" /\ call.pc = "done") =>
        /\ "<" \notin Range(call.out)
        /\ ">" \notin Range(call.out)

\* C11, an entity: cleanContent has turned the entity of "<" into the bare
\* character, as parseQuestion calls it.
C11_EntityDecoded ==
    /\ call.fn = "cleanContent" /\ call.pc = "done"
    /\ call.removeImages /\ ~call.stopAtP
    /\ call.content = <<"x", "&", "l", "t", ";", "x">>
    /\ call.out = <<"x", "<", "x">>

\* C23: with stopAtP, cleanContent cuts the fragment at a paragraph marker
\* only: the text before the first "<p" of the fragment (when it opens no
\* tag of its own), cleaned, opens the result, and a fragment without a
\* paragraph marker is cleaned whole, also when it holds the letter p
\* followed by a space.
C23_CutOnlyAtParagraph ==
    (call.fn = "cleanContent" /\ call.pc = "done" /\ call.stopAtP) =>
        LET m == IndexOfFrom(call.content, <<"<", "p">>, 1)
            kept == cleanContent(IF m = 0 THEN call.content
                                 ELSE SubSeq(call.content, 1, m - 1),
                                 call.removeImages, FALSE)
        IN  /\ (m > 0 /\ "<" \notin Range(SubSeq(call.content, 1, m - 1))) =>
                   OccursAt(call.out, kept, 1)
            /\ m = 0 => call.out = kept

\* C23, a cut inside the text: the fragment "xp x" has no paragraph marker
\* and cleanContent with stopAtP has returned "x".
C23_CutInsideText ==
    /\ call.fn = "cleanContent" /\ call.pc = "done"
    /\ call.stopAtP /\ ~call.removeImages
    /\ call.content = <<"x", "p", " ", "x">>
    /\ call.out = <<"x">>

\* What the fragments handed to extractImages are made of: a paragraph
\* that opens with an image (root-relative source, another one, absolute
\* source), an image that opens no paragraph, and plain text.
ImagePieces ==
    { [img |-> TRUE, src |-> src, html |-> ImgOpen \o src \o ImgClose] :
        src \in {<<"/", "a">>, <<"/", "b">>, <<"h", ":", "/", "/", "x", "/", "p">>} }
    \cup { [img |-> FALSE, src |-> <<>>, html |-> h] :
              h \in { <<"<", "i", "m", "g", " ", "s", "r", "c", "=", "\"", "/", "a", "\"", ">">>,
                      <<"x", " ">> } }

\* Items of the JSON API with every combination of an absent, a
\* root-relative, a relative and an absolute answerPic and commentPic.
PictureItems ==
    { [id |-> 9, text |-> <<"q">>, razdatkaText |-> <<>>, razdatkaPic |-> <<>>,
       answer |-> <<"b">>, zachet |-> <<>>, comment |-> <<>>, complexity |-> <<>>,
       answerPic |-> ap, commentPic |-> cp] :
        ap \in PicRefs \cup {<<>>}, cp \in PicRefs \cup {<<>>} }

\* A caller about to call extractImages of the HTML adapter on a fragment
\* (`pieces`, history, is what the fragment was put together from), or
\* parseQuestionData of the JSON-API adapter on an item.
ImagesInit ==
    /\ CallStart
    /\ \/ \E ps \in UNION {[1..n -> ImagePieces] : n \in 0..MaxFragPieces} :
             call = [fn |-> "extractImages", pc |-> "input", pieces |-> ps,
                     content |-> Concat([i \in 1..Len(ps) |-> ps[i].html]),
                     out |-> <<>>]
       \/ \E raw \in PictureItems :
             call = [fn |-> "parseQuestionData", pc |-> "input", raw |-> raw,
                     out |-> <<>>]

\* One call extractImages(content) of the HTML adapter.
ExtractImagesCall ==
    /\ call.fn = "extractImages"
    /\ call.pc = "input"
    /\ call' = [call EXCEPT !.out = ChgkExtractImages(call.content, 1), !.pc = "done"]
    /\ UNCHANGED <<dvars, evars, load>>

\* One call parseQuestionData(questionData) of a JSON-API adapter made for
\* the tier "random".
ParseQuestionDataCall ==
    /\ call.fn = "parseQuestionData"
    /\ call.pc = "input"
    /\ call' = [call EXCEPT !.out = parseQuestionData(call.raw, "random"), !.pc = "done"]
    /\ UNCHANGED <<dvars, evars, load>>

ImagesNext == ExtractImagesCall \/ ParseQuestionDataCall

SpecImages == ImagesInit /\ [][ImagesNext]_vars

\* The source of an image piece as extractImages is to return it:
\* root-relative behind the origin, absolute as it is.
Resolved(piece) ==
    IF Head(piece.src) = "/" THEN ChgkHost \o piece.src ELSE piece.src

\* C22: extractImages of the HTML adapter returns, in the order of the
\* fragment and with repetitions kept, one URL for every paragraph that opens
\* with an image: origin + /x for the root-relative source /x, the source
\* itself when it is absolute; and the answerPreview of the JSON-API adapter
\* holds the URL of answerPic before the URL of commentPic.
C22_ImagesInOrder ==
    /\ (call.fn = "extractImages" /\ call.pc = "done") =>
           LET imgs == SelectSeq(call.pieces, LAMBDA x : x.img)
           IN  call.out = [i \in 1..Len(imgs) |-> Resolved(imgs[i])]
    /\ (call.fn = "parseQuestionData" /\ call.pc = "done"
           /\ call.raw.answerPic # <<>> /\ call.raw.commentPic # <<>>) =>
           /\ Len(call.out.answerPreview) = 2
           /\ SubSeq(call.out.answerPreview[1],
                     Len(call.out.answerPreview[1]) - Len(call.raw.answerPic) + 1,
                     Len(call.out.answerPreview[1])) = call.raw.answerPic
           /\ SubSeq(call.out.answerPreview[2],
                     Len(call.out.answerPreview[2]) - Len(call.raw.commentPic) + 1,
                     Len(call.out.answerPreview[2])) = call.raw.commentPic

\* C22, a repetition: the fragment shows the image /a twice with text in
\* between, and extractImages has returned its URL twice.
C22_DuplicateKept ==
    /\ call.fn = "extractImages" /\ call.pc = "done"
    /\ Len(call.pieces) = 3
    /\ call.out = <<ChgkHost \o <<"/", "a">>, ChgkHost \o <<"/", "a">> >>

\* A record without the fields whose value is the empty text or list.
Present(rec) == [f \in {x \in DOMAIN rec : rec[x] # <<>>} |-> rec[f]]

\* Question records: with and without a question, a picture of the
\* question, an answer (one with a reserved character), a description and
\* a picture of the answer.
FormatRecords ==
    { Present([question |-> q, questionPreview |-> qp, answer |-> a,
               description |-> d, answerPreview |-> ap]) :
        q \in {<<>>, <<"q", ".">>},
        qp \in {<<>>, <<(<<"h", ":", "/", "/", "x", "/", "p">>)>>},
        a \in {<<>>, <<"a">>, <<"b", "*">>},
        d \in {<<>>, <<"d">>},
        ap \in {<<>>, <<(<<"h", ":", "/", "/", "x", "/", "r">>)>>} }

\* A question turn is about to format one record, and another turn a record
\* with the same question and questionPreview.
FormatInit ==
    /\ CallStart
    /\ \E d1 \in FormatRecords, d2 \in FormatRecords :
          /\ Field(d1, "question", <<>>) = Field(d2, "question", <<>>)
          /\ Field(d1, "questionPreview", <<>>) = Field(d2, "questionPreview", <<>>)
          /\ call = [fn |-> "formatForTelegram", pc |-> "input", first |-> d1,
                     second |-> d2, out1 |-> NoText, out2 |-> NoText]

\* loader.formatForTelegram(questionData, true, false) of sendQuestionMessage,
\* for the first record and then for the second.
FormatCall ==
    /\ call.fn = "formatForTelegram"
    /\ \/ /\ call.pc = "input"
          /\ call' = [call EXCEPT !.out1 = formatForTelegram(call.first, TRUE, FALSE),
                                  !.pc = "one"]
       \/ /\ call.pc = "one"
          /\ call' = [call EXCEPT !.out2 = formatForTelegram(call.second, TRUE, FALSE),
                                  !.pc = "done"]
    /\ UNCHANGED <<dvars, evars, load>>

SpecFormat == FormatInit /\ [][FormatCall]_vars

\* The question message of a turn: the text and the pictures sent with it.
QuestionMessage(questionData, fmt) ==
    [text |-> fmt.question, media |-> Field(questionData, "questionPreview", <<>>)]

\* C27: two records that agree on question and questionPreview get the same
\* question text from formatForTelegram(questionData, true, false) and the
\* same question message, whatever their answer, description and
\* answerPreview; the answer and the description stand in the answer text
\* only.
C27_QuestionIndependent ==
    (call.fn = "formatForTelegram" /\ call.pc = "done") =>
        /\ call.out1.question = call.out2.question
        /\ QuestionMessage(call.first, call.out1) = QuestionMessage(call.second, call.out2)
        /\ call.out1.question =
               formatForTelegram(Present([question |-> Field(call.first, "question", <<>>)]),
                                 TRUE, FALSE).question

\* C27, two answers: the two records have the same question and different
\* answers; the question texts are equal and the answer texts differ.
C27_AnswersDiffer ==
    /\ call.fn = "formatForTelegram" /\ call.pc = "done"
    /\ Field(call.first, "answer", <<>>) = <<"a">>
    /\ Field(call.second, "answer", <<>>) = <<"b", "*">>
    /\ call.out1.question = call.out2.question
    /\ call.out1.question # <<>>
    /\ call.out1.answer # call.out2.answer

\* "/question", the prefix of the texts that start a question turn.
QuestionPrefix == <<"/", "q", "u", "e", "s", "t", "i", "o", "n">>

\* complexityMap (complexity in the earlier revision): the tier of each
\* command text.
complexityMap ==
    (QuestionPrefix :> "random")
    @@ (QuestionPrefix \o <<"e", "a", "s", "y">> :> "easy")
    @@ (QuestionPrefix \o <<"m", "e", "d", "i", "u", "m">> :> "medium")
    @@ (QuestionPrefix \o <<"h", "a", "r", "d">> :> "hard")

\* A lookup that hands the medium tier to a text the map does not hold.
CommandTier_medium(messageText) ==
    IF messageText \in DOMAIN complexityMap THEN complexityMap[messageText]
    ELSE "medium"

\* The tier a command text hands to the question turn:
\* complexityMap[messageText] || "random" in the later revision,
\* complexity[messageText], undefined for a text the map does not hold, in
\* the earlier one.
CommandTier(messageText) ==
    IF messageText \in DOMAIN complexityMap THEN complexityMap[messageText]
    ELSE IF rev = 1 THEN "undefined" ELSE "random"

\* The updates of the model: messages with the four command texts, with
\* other texts that start with /question, with /menu and with a plain text,
\* and presses of a menu button (action "question") that carry one of the
\* four tiers, a tier the table does not know, or none.
Updates ==
    { [kind |-> "message", text |-> t, carried |-> "undefined"] :
        t \in DOMAIN complexityMap
              \cup { QuestionPrefix \o <<"@", "b">>, QuestionPrefix \o <<"s">>,
                     QuestionPrefix \o <<"e", "a", "s", "y", "x">>,
                     <<"/", "m", "e", "n", "u">>, <<"h", "i">> } }
    \cup { [kind |-> "menupress", text |-> <<>>, carried |-> cx] :
              cx \in DOMAIN COMPLEXITY_RANGES \cup {"expert", "undefined"} }

\* An update has arrived at the handler of either revision (the menu exists
\* in the later one only).
UpdateInit ==
    /\ rev \in {1, 2}
    /\ faulty = FALSE
    /\ DispatchQuiet
    /\ EscapeQuiet
    /\ LoadQuiet
    /\ \E u \in Updates, chatId \in Chats :
          /\ u.kind = "menupress" => rev = 2
          /\ call = [fn |-> "webhook", pc |-> "update", chat |-> chatId, update |-> u,
                     turns |-> 0, tier |-> "none", loader |-> [ok |-> FALSE]]

\* The handler routes the update: a message whose text starts with
\* /question and a menu press start a question turn with the tier they
\* select; any other update starts none.
RouteUpdate ==
    /\ call.fn = "webhook"
    /\ call.pc = "update"
    /\ call' =
          IF call.update.kind = "message"
          THEN IF OccursAt(call.update.text, QuestionPrefix, 1)
               THEN [call EXCEPT !.pc = "turn", !.turns = @ + 1,
                                 !.tier = CommandTier(call.update.text)]
               ELSE [call EXCEPT !.pc = "done"]
          ELSE [call EXCEPT !.pc = "turn", !.turns = @ + 1,
                            !.tier = IF call.update.carried = "undefined"
                                     THEN "random" ELSE call.update.carried]
    /\ UNCHANGED <<dvars, evars, load>>

\* The question turn asks the factory for its loader:
\* QuestionLoader(target, complexity).
TurnMakesLoader ==
    /\ call.fn = "webhook"
    /\ call.pc = "turn"
    /\ call' = [call EXCEPT !.loader = QuestionLoader(target, call.tier), !.pc = "done"]
    /\ UNCHANGED <<dvars, evars, load>>

UpdateNext == RouteUpdate \/ TurnMakesLoader

SpecUpdate == UpdateInit /\ [][UpdateNext]_vars

\* C30: a message whose text starts with /question has started one question
\* turn, whose loader has the tier random, easy, medium or hard for the text
\* /question, /questioneasy, /questionmedium or /questionhard and the tier
\* random for every other such text; a press of a menu button has started
\* one question turn whose loader has the tier the press carries, or random
\* when it carries none.
C30_TierOfUpdate ==
    (call.fn = "webhook" /\ call.pc = "done") =>
        LET u == call.update
            suffix == SubSeq(u.text, Len(QuestionPrefix) + 1, Len(u.text))
            tier == IF u.kind = "menupress"
                    THEN (IF u.carried = "undefined" THEN "random" ELSE u.carried)
                    ELSE IF suffix = <<"e", "a", "s", "y">> THEN "easy"
                    ELSE IF suffix = <<"m", "e", "d", "i", "u", "m">> THEN "medium"
                    ELSE IF suffix = <<"h", "a", "r", "d">> THEN "hard"
                    ELSE "random"
        IN  (u.kind = "menupress" \/ OccursAt(u.text, QuestionPrefix, 1)) =>
                /\ call.turns = 1
                /\ call.loader.ok
                /\ call.loader.adapter = "gotq"
                /\ call.loader.complexity = tier
                /\ tier \in DOMAIN COMPLEXITY_RANGES =>
                       call.loader.pages = COMPLEXITY_RANGES[tier].pages

\* C30, another text with the prefix: the earlier revision got "/question@b",
\* handed no tier to the factory, and the turn has a loader of tier random.
C30_OtherTextRandom ==
    /\ call.fn = "webhook" /\ call.pc = "done"
    /\ rev = 1
    /\ call.update.text = QuestionPrefix \o <<"@", "b">>
    /\ call.turns = 1
    /\ call.tier = "undefined"
    /\ call.loader.ok
    /\ call.loader.complexity = "random"

(***************************************************************************)
(* Claims about the loaders                                                *)
(***************************************************************************)
\* The record a finished call of loadQuestion has returned.
Returned == load.pc = "done" /\ load.result.ok

\* C12: in a record loadQuestion returns, a field that is present is not
\* empty: no question, answer or description is an empty text or the null
\* placeholder, no list of pictures is an empty list.
C12_NoEmptyFields ==
    Returned => \A f \in DOMAIN load.result.data : load.result.data[f] # <<>>

\* C12, a blank text: the JSON-API adapter has returned a record whose
\* question is present and empty, for an item whose text is blank.
C12_BlankQuestion ==
    /\ Returned
    /\ load.adapter = "gotq"
    /\ load.resp.questions[load.idx + 1].text = <<" ", " ">>
    /\ load.resp.questions[load.idx + 1].razdatkaText = <<>>
    /\ "question" \in DOMAIN load.result.data
    /\ load.result.data.question = <<>>

\* An absolute URL: it starts with a scheme and "//".
IsAbsolute(url) == Len(url) >= 4 /\ SubSeq(url, 1, 4) = <<"h", ":", "/", "/">>

\* The picture lists of a record.
Previews(data) ==
    Field(data, "questionPreview", <<>>) \o Field(data, "answerPreview", <<>>)

\* C13: every element of questionPreview and answerPreview of a record
\* loadQuestion returns is an absolute URL, whether the source gave the
\* reference root-relative, relative without a leading slash, or absolute.
C13_AbsolutePreviews ==
    Returned => \A i \in 1..Len(Previews(load.result.data)) :
                    IsAbsolute(Previews(load.result.data)[i])

\* C13, a relative reference: the JSON-API adapter has returned the
\* reference "p" of razdatkaPic as it came.
C13_RelativeKept ==
    /\ Returned
    /\ load.adapter = "gotq"
    /\ load.resp.questions[load.idx + 1].razdatkaPic = <<"p">>
    /\ load.result.data.questionPreview = << <<"p">> >>

\* The body of the last section of a page that carries `label`, or the
\* empty text when no section does.
LastBody(labels, label) ==
    LET at == {i \in 1..Len(labels) : labels[i] = label}
    IN  IF at = {} THEN <<>>
        ELSE <<Marker(CHOOSE i \in at : \A j \in at : j <= i)>>

\* C14: for a page of the HTML source made of labelled sections, each of
\* question, answer and description is the body of its own section and
\* nothing else: the body that follows another label, known or not, is in
\* no other field.
C14_OwnSpanOnly ==
    (Returned /\ load.adapter = "chgk" /\ load.resp.labels # <<>>) =>
        /\ load.result.data.question = LastBody(load.resp.labels, QuestionLabel)
        /\ load.result.data.answer = LastBody(load.resp.labels, AnswerLabel)
        /\ Field(load.result.data, "description", <<>>)
               = LastBody(load.resp.labels, CommentLabel)

\* C14, an unknown label: a page whose question is followed by a section
\* with an unknown label and then by the answer has been loaded.
C14_UnknownLabelSkipped ==
    /\ Returned
    /\ load.adapter = "chgk"
    /\ load.resp.labels = <<QuestionLabel, <<"S", ":">>, AnswerLabel>>
    /\ load.result.data.question = <<"u">>
    /\ load.result.data.answer = <<"w">>

\* The factory has been called.
Created == load.pc \notin {"idle", "new"}

\* C15: the factory returns the HTML adapter for "questions.chgk.info" and
\* the JSON-API adapter for "gotquestions.online"; for every other target it
\* constructs nothing and throws an error whose message names both
\* targets; and the HTML adapter keeps nothing of the complexity.
C15_FactoryContract ==
    Created =>
        LET tgt == DefaultArg(load.target, "gotquestions.online")
        IN  /\ tgt = "questions.chgk.info" =>
                   load.adapter = "chgk" /\ load.complexity = "none"
            /\ tgt = "gotquestions.online" => load.adapter = "gotq"
            /\ tgt \notin {"questions.chgk.info", "gotquestions.online"} =>
                   /\ load.pc = "failed"
                   /\ load.adapter = "none"
                   /\ \A i \in 1..Len(loaderMapKeys) :
                          \E j \in 1..Len(load.result.error.message) :
                              load.result.error.message[j] = loaderMapKeys[i]

\* C15, an inherited name: asked for the target "constructor", the factory
\* has thrown nothing and has returned an object that is no loader.
C15_ObjectReturned ==
    /\ load.target = "constructor"
    /\ load.pc = "made"
    /\ load.adapter = "object"

\* C16: the loader made for "gotquestions.online" asks for the band and
\* keeps the page ceiling of its tier (random 0.1 to 4.5 over 500 pages,
\* easy 0.1 to 3.5 over 500, medium 3.5 to 6.5 over 500, hard 6.5 to 10 over
\* 200), always with the acceptance band 50 to 100; a tier name outside the
\* four gets the medium parameters and no error.
C16_TierParameters ==
    (Created /\ DefaultArg(load.target, "gotquestions.online") = "gotquestions.online") =>
        LET tier == DefaultArg(load.asked, "random")
            band == IF tier = "random" THEN <<(<<"0", ".", "1">>), <<"4", ".", "5">>, 500>>
                    ELSE IF tier = "easy" THEN <<(<<"0", ".", "1">>), <<"3", ".", "5">>, 500>>
                    ELSE IF tier = "hard" THEN <<(<<"6", ".", "5">>), <<"1", "0">>, 200>>
                    ELSE <<(<<"3", ".", "5">>), <<"6", ".", "5">>, 500>>
        IN  /\ load.pc # "failed"
            /\ load.adapter = "gotq"
            /\ load.params.fromTrueDL = band[1]
            /\ load.params.toTrueDL = band[2]
            /\ load.pages = band[3]
            /\ load.params.fromD = <<"5", "0">>
            /\ load.params.toD = <<"1", "0", "0">>

\* C16, an inherited name: asked for the tier "constructor", the constructor
\* has thrown a TypeError and no loader exists.
C16_InheritedTierThrows ==
    /\ load.target = "gotquestions.online"
    /\ load.asked = "constructor"
    /\ load.pc = "failed"
    /\ load.result.error.name = "TypeError"

\* loadQuestion has rejected.
Rejected == load.pc = "done" /\ ~load.result.ok

\* C17: the error of a rejected loadQuestion tells its cause by its kind: a
\* status that is not successful gives a FetchError, a page of zero
\* questions an EmptyResultError, and a fetch or decode that throws in the
\* HTML adapter a ParseError whose message carries the message thrown.
C17_ErrorKinds ==
    Rejected =>
        /\ (~load.resp.throws /\ ~load.resp.ok) => load.result.error.name = "FetchError"
        /\ (~load.resp.throws /\ load.resp.ok /\ load.adapter = "gotq") =>
               load.result.error.name = "EmptyResultError"
        /\ (load.resp.throws /\ load.adapter = "chgk") =>
               /\ load.result.error.name = "ParseError"
               /\ \E i \in 0..Len(load.result.error.message) :
                      SubSeq(load.result.error.message, i + 1,
                             Len(load.result.error.message)) = load.resp.thrown

\* C17, one error for two causes: the HTML adapter has rejected a fetch
\* that threw "HTTP error! status: 500" with the very error it gives for a
\* response of status 500.
C17_SameErrorTwoCauses ==
    /\ Rejected
    /\ load.adapter = "chgk"
    /\ load.resp.throws
    /\ load.result = LoadError(<<"HTTP error! status: ">> \o IntText(500))

\* C19: whatever the random source returns, the page the JSON-API adapter
\* asks for is an integer from 1 to the page ceiling of its tier, and the
\* index of the item it picks from a page of n >= 1 questions is an integer
\* from 0 to n - 1, the item returned being the one at that index.
C19_DrawsInRange ==
    /\ (load.adapter = "gotq" /\ load.fetches > 0) =>
           load.page \in 1..load.pages
    /\ (Returned /\ load.adapter = "gotq") =>
           /\ Len(load.resp.questions) >= 1
           /\ load.idx \in 0..(Len(load.resp.questions) - 1)
           /\ load.result.item = load.resp.questions[load.idx + 1].id

\* C19, the greatest draws: with the greatest value below 1 drawn twice the
\* adapter has asked for the last page of its tier and has returned the
\* last of the two items of the page.
C19_LastPageLastItem ==
    /\ Returned
    /\ load.adapter = "gotq"
    /\ load.upage = RandomDenominator - 1
    /\ load.page = load.pages
    /\ Len(load.resp.questions) = 2
    /\ load.uidx = RandomDenominator - 1
    /\ load.idx = 1

\* C20: in the record parseQuestionData returns, a razdatkaText that is not
\* empty after trimming stands behind the trimmed text as a new paragraph
\* with the prefix glyph when the trimmed text is not empty, and is the
\* whole question, without the prefix, when the text is absent or blank; a
\* razdatkaText that is absent or blank leaves the trimmed text as it is.
C20_RazdatkaJoins ==
    (Returned /\ load.adapter = "gotq") =>
        LET raw == load.resp.questions[load.idx + 1]
            q == Trim(raw.text)
            rz == Trim(raw.razdatkaText)
            question == load.result.data.question
        IN  /\ (rz # <<>> /\ q # <<>>) => question = q \o <<"\n", "\n", "@", " ">> \o rz
            /\ (rz # <<>> /\ q = <<>>) => question = rz
            /\ rz = <<>> => question = q

\* C20, the razdatkaText alone: the item returned has a blank text and the
\* razdatkaText " r ", and the question is "r".
C20_RazdatkaAlone ==
    /\ Returned
    /\ load.adapter = "gotq"
    /\ load.resp.questions[load.idx + 1].text = <<" ", " ">>
    /\ load.resp.questions[load.idx + 1].razdatkaText = <<" ", "r", " ">>
    /\ load.result.data.question = <<"r">>

\* C21: the description parseQuestionData returns is the paragraph of the
\* zachet, the comment and the acceptance statistic, in that order, each
\* only when its source is not empty (after trimming, for the first two);
\* the statistic shows the mean of the complexity array with one decimal
\* (50.0 for [40, 60], 1.7 for [1, 2, 2]), the tier the loader was made
\* with and a link to the page of the question; with no paragraph the
\* record has no description.
C21_DescriptionParagraphs ==
    (Returned /\ load.adapter = "gotq") =>
        LET raw == load.resp.questions[load.idx + 1]
            tier == DefaultArg(load.asked, "random")
            mean == IF raw.complexity = <<40, 60>> THEN <<"5", "0", ".", "0">>
                    ELSE IF raw.complexity = <<1, 2, 2>> THEN <<"1", ".", "7">>
                    ELSE <<>>
            p1 == IF Trim(raw.zachet) # <<>>
                  THEN <<(<<"Z", ":", " ">> \o Trim(raw.zachet))>> ELSE <<>>
            p2 == IF Trim(raw.comment) # <<>> THEN <<Trim(raw.comment)>> ELSE <<>>
            p3 == IF raw.complexity # <<>>
                  THEN << <<"[", "^", "]", "(">> \o GotBaseUrl \o <<"/", "q", "/">>
                             \o IntText(raw.id) \o <<")", " ", "*">> \o mean
                             \o <<"%", "*", " ", "o", "k", ",", " ", "t", ":", " ", "*">>
                             \o (IF tier \in DOMAIN TierText THEN TierText[tier]
                                 ELSE <<"x">>)
                             \o <<"*">> >>
                  ELSE <<>>
        IN  /\ raw.complexity # <<>> => mean # <<>>
            /\ IF p1 \o p2 \o p3 = <<>>
               THEN "description" \notin DOMAIN load.result.data
               ELSE /\ "description" \in DOMAIN load.result.data
                    /\ load.result.data.description = Join(p1 \o p2 \o p3, <<"\n", "\n">>)

\* C21, all three paragraphs: the item returned has a zachet, a comment and
\* the complexity [40, 60]; the description starts with the zachet and
\* holds the mean 50.0.
C21_MeanOneDecimal ==
    /\ Returned
    /\ load.adapter = "gotq"
    /\ load.resp.questions[load.idx + 1].zachet = <<" ", "z", " ">>
    /\ load.resp.questions[load.idx + 1].comment = <<" ", "c", " ">>
    /\ load.resp.questions[load.idx + 1].complexity = <<40, 60>>
    /\ OccursAt(load.result.data.description, <<"Z", ":", " ", "z", "\n", "\n", "c", "\n", "\n", "[">>, 1)
    /\ Includes(load.result.data.description, <<"*", "5", "0", ".", "0", "%", "*">>)

\* C8: every call of loadQuestion, on either adapter, issues exactly one
\* network fetch whatever its outcome: a fetch that throws, a non-successful
\* status, a page with zero results and a success alike; no state of a call
\* has seen a second fetch, and a call that has ended has seen one.
C8_OneFetch ==
    /\ load.fetches <= 1
    /\ load.pc \in {"answered", "done"} => load.fetches = 1

\* A call on the JSON-API adapter has ended in failure on a page with zero
\* results, after one fetch.
C8_EmptyPageOneFetch ==
    /\ load.pc = "done"
    /\ load.adapter = "gotq"
    /\ ~load.resp.throws /\ load.resp.ok /\ load.resp.questions = <<>>
    /\ ~load.result.ok
    /\ load.fetches = 1

(***************************************************************************)
(* Claims about the dispatcher                                             *)
(***************************************************************************)
\* C1: the pending answer stored under a key is sent at most once: no two
\* presses send the entry one delivery wrote.
C1_AnswerSentOnce ==
    \A x, y \in reveals : x.origin = y.origin => x.press = y.press

\* C2: a press that arrives after a complete press of its key (get, send,
\* del) finds no entry, sends no answer, delivers the expired notice, issues
\* no error alert and responds 200.
C2_LaterPressNotFound ==
    (ev.kind = "press" /\ ev.later) =>
        /\ ~ev.found
        /\ ~ev.answered
        /\ ev.notice = 1
        /\ ev.alert = 0
        /\ ev.status = 200

\* C3: under the keys derived from the question, when one question is
\* delivered twice to a chat and the second delivery has overwritten the
\* entry, a press on the button of the first delivery sends no answer and
\* leaves the entry: no answer of a question is sent through a button older
\* than the delivery that wrote the entry.
C3_StalePressSendsNothing ==
    rev = 2 => \A x \in reveals : x.item = x.origin[2] => x.button >= x.origin[1]

\* The button of an earlier delivery of a question has revealed the entry
\* written by a later delivery of the same question.
C3_StaleButtonReveals ==
    rev = 2 /\ \E x \in reveals : x.item = x.origin[2] /\ x.button < x.origin[1]

\* The payload {answer, answerPreview, questionMessageId} of an entry,
\* without its history.
Stored(v) == [v EXCEPT !.origin = <<0, 0>>, !.ttl = 0]

\* C4: under the keys built from the question identifier, a delivery that
\* writes the key of an entry another delivery of the same question wrote
\* stores an equal payload.
C4_EqualPayloads ==
    [][rev = 2 =>
          \A k \in DOMAIN cache \cap DOMAIN cache' :
              cache'[k].origin[2] = cache[k].origin[2] =>
                  Stored(cache'[k]) = Stored(cache[k])]_vars

\* C5: deliveries of different questions to one chat carry different keys,
\* and no write replaces the entry of a different question.
C5_IndependentEntries ==
    [][/\ \A b1, b2 \in buttons' :
              (b1.chat = b2.chat /\ b1.item # b2.item) => b1.key # b2.key
       /\ \A k \in DOMAIN cache \cap DOMAIN cache' :
              cache'[k].origin[2] = cache[k].origin[2]]_vars

\* C5, the timestamp scheme: two deliveries of different questions to one
\* chat within one millisecond carry one key.
C5_SameMillisecond ==
    /\ rev = 1
    /\ \E b1, b2 \in buttons :
           b1.chat = b2.chat /\ b1.item # b2.item /\ b1.key = b2.key

\* C6: the key the later revision builds from the record loadQuestion
\* returned is answer:<chatId>:<identifier of the item delivered>, and the
\* third colon-separated field of the key is that identifier, for positive
\* and negative chat identifiers alike.
C6_KeyCarriesIdentifier ==
    rev = 2 =>
        \A b \in buttons :
            /\ b.key = <<"a", "n", "s", "w", "e", "r", ":">> \o IntText(b.chat)
                            \o <<":">> \o IntText(b.item)
            /\ QuestionIdOfKey(b.key) = IntText(b.item)

\* C6, the key as built: the identifier field holds the text "undefined".
C6_UndefinedIdentifier ==
    /\ rev = 2
    /\ \E b \in buttons :
           /\ b.chat < 0
           /\ QuestionIdOfKey(b.key) = UndefinedText

\* C7: a question turn whose load failed has called the loader once, has
\* sent the "could not load" message once, and has sent no question, shown
\* no button and written no entry; the invocation is over.
C7_LoadFailureOneMessage ==
    (ev.kind = "question" /\ ev.loads > 0 /\ ~ev.loadOk) =>
        /\ ev.loads = 1
        /\ ev.errMsgs = 1
        /\ ev.qSends = 0
        /\ ev.btns = 0
        /\ ev.writes = 0

\* C7, a failed load: a question turn has ended after its one load failed
\* and its one "could not load" message was sent.
C7_LoadFailed ==
    /\ ev.kind = "question"
    /\ ev.loads = 1
    /\ ~ev.loadOk
    /\ ev.errMsgs = 1
    /\ ev.qSends = 0
    /\ ev.writes = 0
    /\ ~ev.faulted

\* C18: an entry lives 3600 seconds in the earlier revision and 86400 in
\* the later one; until a press consumes it or that time elapses it stays in
\* the store as written, and afterwards it is absent; a press that arrives
\* when the entries of all buttons have expired sends no answer and gets the
\* expired notice delivered, whose link in the later revision names the
\* question the pressed message shows.
C18_EntryLifetime ==
    [][/\ \A k \in DOMAIN cache :
              /\ cache[k].ttl = IF rev = 1 THEN 3600 ELSE 86400
              /\ (k \notin DOMAIN cache' \/ cache'[k] # cache[k]) =>
                     (k \in expired' \/ k \in consumed')
       /\ \A k \in expired' : k \notin DOMAIN cache'
       /\ (/\ buttons # {}
           /\ \A b \in buttons : b.key \in expired
           /\ started' = started + 1
           /\ inflight' = inflight
           /\ ev'.kind = "press") =>
              /\ ~ev'.answered
              /\ ev'.notice = 1
              /\ ev'.rejects = 0
              /\ rev = 2 => \A b \in buttons : QuestionIdOfKey(b.key) = IntText(b.item)]_vars

\* C18, the press after expiry in the later revision: the question turn and
\* the press are the only invocations, the entry has expired, and the press
\* found nothing and had its notice refused by the channel.
C18_NoticeRefused ==
    /\ rev = 2
    /\ started = 2
    /\ inflight = {}
    /\ expired # {}
    /\ ev.kind = "press"
    /\ ~ev.found
    /\ ev.notice = 0
    /\ ev.rejects = 1

\* C24: while no entry of a delivered button has expired or been consumed,
\* no press ends without its entry: every press of a delivered button finds
\* the pending answer under the key the button carries, also while the
\* invocation of the question turn is still running.
C24_PressFindsEntry ==
    [][(/\ buttons # {}
        /\ \A b \in buttons : b.key \notin consumed \cup expired) =>
           ~(/\ started' = started + 1
             /\ inflight' = inflight
             /\ ev'.kind = "press"
             /\ ~ev'.found)]_vars

\* C24, a press that overtakes the write: the question turn has shown its
\* button and waits to write its entry, nothing has expired or been
\* consumed, and the press has ended without an entry.
C24_PressBeforeWrite ==
    /\ started = 2
    /\ \E r \in inflight : r.kind = "question" /\ r.pc \in {"q_store", "q_store_m"}
    /\ cache = <<>>
    /\ consumed = {}
    /\ expired = {}
    /\ ev.kind = "press"
    /\ ~ev.found

\* C25: a question turn, finished or still running, has delivered the
\* question to the chat at most once and has shown at most one reveal
\* button, whichever of its calls failed.
C25_QuestionAtMostOnce ==
    /\ ev.kind = "question" => (ev.qSends <= 1 /\ ev.btns <= 1)
    /\ \A r \in inflight :
           r.kind = "question" => (r.c.qSends <= 1 /\ r.c.btns <= 1)

\* C25, the fallback after a delivered media group: the write of the later
\* revision's media path failed, and the turn has ended with the question
\* delivered twice and two reveal buttons in the chat.
C25_DeliveredTwice ==
    /\ rev = 2
    /\ ev.kind = "question"
    /\ ev.faulted
    /\ ev.qSends = 2
    /\ ev.btns = 2

\* C26: the step that ends a press which found its entry changes the store
\* only after the answer was delivered: when neither the media group nor
\* the text was sent the store is left as it was; when the answer was
\* delivered and del did not fail the entry under the key is gone, and
\* nothing else of the store has changed, whether or not the button and the
\* helper message could be removed.
C26_DeleteAfterDelivery ==
    [][\A r \in inflight :
          (r.kind = "press" /\ r \notin inflight') =>
              /\ ~ev'.answered => cache' = cache
              /\ cache' # cache => (ev'.answered /\ cache' = CacheDel(cache, r.key))
              /\ (ev'.answered /\ ev'.alert = 0) => r.key \notin DOMAIN cache']_vars

\* C26, the button that could not be removed: the press revealed the answer
\* of the question without pictures, the edit of the keyboard failed, and
\* the entry is deleted.
C26_EditFailedEntryDeleted ==
    /\ rev = 2
    /\ ev.kind = "press"
    /\ ev.answered
    /\ ev.faulted
    /\ ev.alert = 0
    /\ cache = <<>>
    /\ consumed # {}
    /\ reveals # {}
    /\ \A x \in reveals : x.item = 7

\* C28: a finished invocation has written one response, and a question
\* turn whose load failed has written 200.
C28_LoadFailureAcknowledged ==
    /\ ev.kind # "none" => ev.status \in {200, 500}
    /\ (ev.kind = "question" /\ ev.loads = 1 /\ ~ev.loadOk) => ev.status = 200

\* C28, the notice that could not be sent: in the earlier revision the load
\* failed, the send of the "could not load" message failed too, and the
\* invocation has answered 500.
C28_LoadFailureAnswered500 ==
    /\ rev = 1
    /\ ev.kind = "question"
    /\ ev.loads = 1
    /\ ~ev.loadOk
    /\ ev.faulted
    /\ ev.status = 500

\* C29: a question turn that has sent its progress notice has deleted it
\* when the turn ends, whether the load succeeded or failed.
C29_ProgressNoticeDeleted ==
    (ev.kind = "question" /\ ev.progress) => ev.removed

\* C29, the failed load: the turn has sent the progress notice, the load
\* failed, the "could not load" message is sent, no call failed in transit,
\* and the notice was never deleted.
C29_NoticeLeftBehind ==
    /\ ev.kind = "question"
    /\ ev.progress
    /\ ev.loads = 1
    /\ ~ev.loadOk
    /\ ev.errMsgs = 1
    /\ ~ev.faulted
    /\ ~ev.removed

\* C9: the channel refuses to render no text the dispatcher sends with
\* parse_mode MarkdownV2.
C9_NoRenderingError == ev.rejects = 0

=============================================================================
